---- MODULE Spec2Model ----
(***************************************************************************)
(* Kiosk presence-and-streaming agent (count_people.py).                   *)
(*                                                                         *)
(* Three components are modelled, each with its own specification over     *)
(* the shared variable tuple:                                              *)
(*   SpecTracker - PersonTracker.process_detections with the image upload  *)
(*                 of DetectionReporter it calls;                          *)
(*   SpecFrame   - FrameHolder.set_frame / get_frame under its lock;       *)
(*   SpecStream  - the connect / auth / poll loop of the two WebSocket     *)
(*                 stream publishers.                                      *)
(* Time in the tracker is counted in frame periods (1 / fps_target s).     *)
(***************************************************************************)
EXTENDS Integers, Sequences, FiniteSets, TLC

(* ------------------------------ bounds -------------------------------- *)
\* Config.__init__: frames_to_count = int(dwell_threshold * fps_target),
\* 8 s * 5 fps = 40 frames with the default --dwell-threshold.  The tracker's
\* clock counts frame periods (1 / fps_target s), so the dwell threshold is
\* frames_to_count periods long.
frames_to_count == 3
\* number of set_frame calls the main loop makes
MaxSets == 3
\* --batch-interval, in seconds (default 30)
batch_interval == 2
\* visits the reporter is followed for, and batch POSTs the worker makes
MaxCounted == 7
MaxBatchPosts == 2
\* visits followed while the worker's deliveries may fail
MaxQueued == 3
\* sessions started, and frames written to one recording
MaxSessions == 2
MaxRecFrames == 1
\* recording commands that wait for the control server, frames sent to a
\* live-view client
MaxCommands == 3
MaxWaiting == 2
MaxStreamed == 2
\* frames the capture thread delivers
MaxCaptured == 3
\* consecutive connection failures followed, and frames a publisher sends
MaxFailures == 5
MaxSent == 2
\* longest pause between two process_detections calls, in frame periods
MaxGap == 2

(* ------------------------- program constants -------------------------- *)
max_cloud_failures == 5
\* _upload_worker: the batch size that forces a flush, and the timeout of
\* pending_queue.get, in seconds
BatchSize == 10
PollTimeout == 1
\* stop_and_upload: a recording is uploaded only if larger than this
SanityThreshold == 1024
\* publisher timing, in units of 10 ms
stream_interval == 10
IdleSleep == 10
BusySleep == 1
RecvTimeout == 5
\* reconnect backoff, in seconds
reconnect_delay == 5
max_reconnect_delay == 60

\* dwell_threshold, in frame periods
DwellThreshold == frames_to_count
\* the track identifiers the detector hands out
IDs == {3, 7}
\* cap on the appearances of one identifier and on the clock
MaxFrames == frames_to_count + 1
MaxTime == frames_to_count + 3

None == "None"

(* ------------------------------ state --------------------------------- *)
VARIABLES
    \* PersonTracker
    id_frame_counts,        \* dict: track id -> frame count
    id_first_seen,          \* dict: track id -> datetime of first appearance
    counted_ids,
    saved_ids,
    id_cloud_urls,          \* dict: track id -> cloud url (its key set)
    daily_count,
    \* DetectionReporter
    pending_queue,          \* queue.Queue of detection dicts
    cloud_upload_enabled,
    cloud_upload_failures,
    \* environment of the tracker
    clock,                  \* datetime.now(), in frame periods
    image_posts,            \* POSTs made to /surveillance/detection-image
    \* history of the detector's output, kept for the properties only
    hist,
    \* FrameHolder
    fh_frame,               \* self.frame
    fh_annotated,           \* self.annotated_frame
    fh_lock,                \* holder of self.lock, or None
    \* the thread calling set_frame (the main loop)
    w_pc,
    w_arg,                  \* arguments of the set_frame call in progress
    sets_done,              \* number of set_frame calls that returned
    set_args,               \* history: whether call n supplied an annotated frame
    \* the threads calling get_frame
    r_pc,
    r_want,                 \* the annotated argument
    r_test,                 \* outcome of the condition on line 134
    r_ret,                  \* the value returned
    r_at,                   \* history: sets_done when the reader took the lock
    \* WebSocketFrameStreamer / ScreenFrameStreamer (one publisher)
    p_kind,                 \* which of the two classes: "camera" or "screen"
    running,
    connected,
    authenticated,
    streaming_active,
    ws,                     \* self.ws: "none", "open" or "closed"
    consecutive_failures,
    frames_sent,
    since_last,             \* current time - last_frame_time, in 10 ms, capped
    reconnect_wait,         \* the delay slept before the next connect
    p_pc,                   \* where the connect thread stands
    stop_pc,                \* where a caller of stop() stands
    wire,                   \* what this connection has sent so far
    p_hist,                 \* history of what this connection has received
    \* DetectionReporter: the upload worker thread
    rep_running,            \* self.running
    batch,                  \* the worker's local batch
    since_upload,           \* time.time() - last_upload, in seconds, capped
    u_pc,                   \* where the worker stands
    \* environment and history of the reporter
    next_track,             \* the next track identifier the detector hands out
    batch_posts,            \* POSTs made to /surveillance/events/batch
    last_response,          \* what the backend answered to the last of them
    held,                   \* how long the oldest item of the batch is in it
    flushed,                \* what has made the worker flush so far
    \* VideoRecorder
    vr,                     \* the recorder object and the config it records by
    cap,                    \* locals of the capture thread: writer, writer_initialized
    sc,                     \* the screen recording threads, by start number
    open_writers,           \* paths whose cv2.VideoWriter is open
    files,                  \* the recordings on disk: path -> size in bytes
    video_uploads,          \* POSTs made to /kiosk/session/recording/upload-python
    starts,                 \* sessions started so far (stands for the timestamp)
    st_pc,                  \* where each caller of stop_and_upload stands
    stopping,               \* history: the session each caller began to stop
    h_hist,                 \* history: the last two recording commands
    \* main and signal_handler
    m_pc,
    should_stop,            \* _should_stop
    m_hist,                 \* history: how the shutdown began
    \* ScreenFrameStreamer
    screen_running,         \* running of the screen publisher main starts
    \* the threads of the recorder, statement by statement
    c_pc,                   \* where the capture thread stands in its loop
    writer_lock,            \* VideoRecorder.writer_lock: None or its holder
    frame_lock,             \* VideoRecorder.frame_lock: None or its holder
    \* the control server (HTTPServer.serve_forever in one thread)
    srv,                    \* what its thread does, and the commands that wait
    \* the frame handed from the capture thread to the detection loop
    latest_frame,           \* VideoRecorder.latest_frame: number and content
    last_processed          \* history: the number of the frame last tracked

trackerVars == <<id_frame_counts, id_first_seen, counted_ids, saved_ids,
                 id_cloud_urls, daily_count, pending_queue,
                 cloud_upload_enabled, cloud_upload_failures, clock,
                 image_posts, hist>>

frameVars == <<fh_frame, fh_annotated, fh_lock, w_pc, w_arg, sets_done,
               set_args, r_pc, r_want, r_test, r_ret, r_at>>

streamVars == <<p_kind, running, connected, authenticated, streaming_active,
                ws, consecutive_failures, frames_sent, since_last,
                reconnect_wait, p_pc, stop_pc, wire, p_hist>>

reporterVars == <<rep_running, batch, since_upload, u_pc, next_track,
                  batch_posts, last_response, held, flushed>>

recorderVars == <<vr, cap, sc, open_writers, files, video_uploads, starts,
                  st_pc, stopping, h_hist, m_pc, should_stop, m_hist>>

threadVars == <<screen_running, c_pc, writer_lock, frame_lock>>

serverVars == <<srv>>

loopVars == <<latest_frame, last_processed>>

vars == <<trackerVars, frameVars, streamVars, reporterVars, recorderVars,
          threadVars, serverVars, loopVars>>

(* ------------------------- dictionaries ------------------------------- *)
EmptyDict == [k \in {} |-> 0]
DictPut(d, k, v) == [x \in (DOMAIN d) \cup {k} |-> IF x = k THEN v ELSE d[x]]

(* ----------------------- DetectionReporter ---------------------------- *)
\* what the backend does with one image POST
PostOutcomes == {"201url", "201nourl", "404", "other", "exception"}

\* variant: the first failure disables the upload
UploadFailed_DisableAtOnce(rep) ==
    [rep EXCEPT !.failures = @ + 1, !.enabled = FALSE, !.url = None]

\* the failure branches of report_detection_with_image
UploadFailed(rep) ==
    LET f == rep.failures + 1 IN
    [rep EXCEPT !.failures = f,
                !.enabled = IF f >= max_cloud_failures THEN FALSE ELSE @,
                !.url = None]

\* variant: the enabled flag is not looked at
report_detection_with_image_Retry(rep, obj_id, dwell, outcome) ==
    LET posted == [rep EXCEPT !.posts = Append(@,
                       [personTrackId |-> obj_id, dwellSeconds |-> dwell,
                        wasCounted |-> TRUE])]
    IN  CASE outcome = "201url" ->
               [posted EXCEPT !.failures = 0, !.url = "url"]
          [] outcome = "201nourl" ->
               [posted EXCEPT !.failures = 0, !.url = None]
          [] OTHER -> UploadFailed(posted)

\* report_detection_with_image: rep carries the reporter's fields, the
\* posts made so far and, on return, the url handed back to the caller
report_detection_with_image(rep, obj_id, dwell, outcome) ==
    IF ~rep.enabled THEN [rep EXCEPT !.url = None]
    ELSE LET posted == [rep EXCEPT !.posts = Append(@,
                            [personTrackId |-> obj_id, dwellSeconds |-> dwell,
                             wasCounted |-> TRUE])]
         IN  CASE outcome = "201url" ->
                    [posted EXCEPT !.failures = 0, !.url = "url"]
               [] outcome = "201nourl" ->
                    [posted EXCEPT !.failures = 0, !.url = None]
               [] OTHER -> UploadFailed(posted)

\* report_detection: queue a path-only detection
report_detection(queue, obj_id, now, dwell) ==
    Append(queue, [personTrackId |-> obj_id, detectedAt |-> now,
                   dwellSeconds |-> dwell, wasCounted |-> TRUE])

(* ------------------------- PersonTracker ------------------------------ *)
\* variant: first_seen is rewritten at every appearance
InitTrack_Overwrite(st, obj_id, now) ==
    IF obj_id \notin DOMAIN st.first_seen
    THEN [st EXCEPT !.first_seen = DictPut(@, obj_id, now),
                    !.frame_counts = DictPut(@, obj_id, 0)]
    ELSE [st EXCEPT !.first_seen = DictPut(@, obj_id, now)]

\* line 1046-1048: first_seen / frame count initialised for a new id only
InitTrack(st, obj_id, now) ==
    IF obj_id \notin DOMAIN st.first_seen
    THEN [st EXCEPT !.first_seen = DictPut(@, obj_id, now),
                    !.frame_counts = DictPut(@, obj_id, 0)]
    ELSE st

\* variant: the membership test on counted_ids is dropped
ShouldCount_Recount(frame_count, obj_id, counted) ==
    frame_count >= frames_to_count

\* variant: the threshold has to be exceeded
ShouldCount_Late(frame_count, obj_id, counted) ==
    frame_count > frames_to_count /\ obj_id \notin counted

\* variant: the threshold is compared one frame early
ShouldCount_Early(frame_count, obj_id, counted) ==
    frame_count >= frames_to_count - 1 /\ obj_id \notin counted

\* line 1056: the counting condition
ShouldCount(frame_count, obj_id, counted) ==
    frame_count >= frames_to_count /\ obj_id \notin counted

\* line 1062: dwell_seconds, in frame periods
DwellSeconds(now, first_seen) == now - first_seen

\* variant: the id is not entered into saved_ids
MarkCounted_SkipSaved(st, obj_id) ==
    [st EXCEPT !.counted = @ \cup {obj_id},
               !.daily = @ + 1]

\* line 1057-1059: the id enters counted_ids and saved_ids, daily_count += 1
MarkCounted(st, obj_id) ==
    [st EXCEPT !.counted = @ \cup {obj_id},
               !.saved = @ \cup {obj_id},
               !.daily = @ + 1]

\* body of the for loop of process_detections for one obj_id
ProcessOne(st, obj_id, now, outcome) ==
    LET s1 == InitTrack(st, obj_id, now)
        s2 == [s1 EXCEPT !.frame_counts[obj_id] = @ + 1]
        frame_count == s2.frame_counts[obj_id]
    IN  IF ShouldCount(frame_count, obj_id, s2.counted)
        THEN LET dwell == DwellSeconds(now, s2.first_seen[obj_id])
                 rep == report_detection_with_image(
                            [enabled |-> s2.enabled, failures |-> s2.failures,
                             posts |-> s2.posts, url |-> None],
                            obj_id, dwell, outcome)
                 s3 == [MarkCounted(s2, obj_id) EXCEPT
                                  !.enabled = rep.enabled,
                                  !.failures = rep.failures,
                                  !.posts = rep.posts,
                                  !.log = Append(@,
                                     [trackId |-> obj_id, dwellSeconds |-> dwell,
                                      at |-> now, frames |-> frame_count,
                                      cloud |-> rep.url # None])]
             IN  IF rep.url # None
                 THEN [s3 EXCEPT !.urls = @ \cup {obj_id}]
                 ELSE [s3 EXCEPT !.queue =
                                   report_detection(@, obj_id, now, dwell)]
        ELSE s2

RECURSIVE ProcessList(_, _, _, _)
ProcessList(st, track_ids, now, outcomes) ==
    IF track_ids = <<>> THEN st
    ELSE ProcessList(ProcessOne(st, Head(track_ids), now,
                                IF Head(track_ids) \in DOMAIN outcomes
                                THEN outcomes[Head(track_ids)] ELSE None),
                     Tail(track_ids), now, outcomes)

\* the detector's per-frame output: identifiers are distinct within a frame
RECURSIVE SeqsOver(_)
SeqsOver(S) ==
    IF S = {} THEN {<<>>}
    ELSE UNION {{<<x>> \o t : t \in SeqsOver(S \ {x})} : x \in S}
TrackIdLists == UNION {SeqsOver(S) : S \in SUBSET IDs}
Range(s) == {s[i] : i \in DOMAIN s}

\* history: what the detector has reported so far, per identifier
\*   appear - number of frames the id appeared in
\*   first  - clock of the frame it first appeared in (0: never)
\*   run    - length of the current unbroken run of frames containing it
\*   steady - every frame since its first appearance came one period apart
HistInit == [i \in IDs |-> [appear |-> 0, first |-> 0, run |-> 0,
                            steady |-> TRUE]]
HistStep(h, ids, now, gap) ==
    [i \in IDs |->
        IF i \in ids
        THEN [appear |-> h[i].appear + 1,
              first |-> IF h[i].appear = 0 THEN now ELSE h[i].first,
              run |-> h[i].run + 1,
              steady |-> IF h[i].appear = 0 THEN TRUE
                         ELSE h[i].steady /\ gap = 1]
        ELSE [h[i] EXCEPT !.run = 0,
                          !.steady = IF h[i].appear = 0 THEN TRUE
                                     ELSE @ /\ gap = 1]]

\* the identifiers of this frame that reach the counting branch, each of
\* which makes one blocking image upload whose outcome the backend decides
Counting(st, track_ids, now) ==
    {i \in Range(track_ids) :
        ShouldCount(InitTrack(st, i, now).frame_counts[i] + 1, i, st.counted)}

\* main lines 1753-1757, gap frame periods after the previous iteration:
\* tracker.process_detections(track_ids, frame), where the empty list stands
\* for a frame without tracked boxes, in which the call is skipped
TrackFrame(track_ids) ==
    \E gap \in 1..MaxGap :
        LET now == clock + gap
            st == [frame_counts |-> id_frame_counts,
                   first_seen |-> id_first_seen,
                   counted |-> counted_ids, saved |-> saved_ids,
                   urls |-> id_cloud_urls, daily |-> daily_count,
                   queue |-> pending_queue,
                   enabled |-> cloud_upload_enabled,
                   failures |-> cloud_upload_failures,
                   posts |-> image_posts, log |-> hist.log]
        IN  /\ now <= MaxTime
            /\ \A i \in Range(track_ids) : hist.seen[i].appear < MaxFrames
            /\ \E outcomes \in [Counting(st, track_ids, now) -> PostOutcomes] :
                LET res == ProcessList(st, track_ids, now, outcomes) IN
                /\ clock' = now
                /\ id_frame_counts' = res.frame_counts
                /\ id_first_seen' = res.first_seen
                /\ counted_ids' = res.counted
                /\ saved_ids' = res.saved
                /\ id_cloud_urls' = res.urls
                /\ daily_count' = res.daily
                /\ pending_queue' = res.queue
                /\ cloud_upload_enabled' = res.enabled
                /\ cloud_upload_failures' = res.failures
                /\ image_posts' = res.posts
                /\ hist' = [seen |-> HistStep(hist.seen, Range(track_ids),
                                              now, gap),
                            log |-> res.log,
                            last |-> Range(track_ids)]

\* one iteration of the main loop on whatever the detector reports
ProcessDetections ==
    /\ \E track_ids \in TrackIdLists : TrackFrame(track_ids)
    /\ UNCHANGED <<frameVars, streamVars, reporterVars, recorderVars,
                   threadVars, serverVars, loopVars>>

(* ---------------- the detection loop and the capture thread ----------- *)
NoImage == [seq |-> 0, ids |-> <<>>]

\* main lines 1677-1687: the loop starts when the capture thread has
\* delivered its first frame, which here shows nobody
LoopInit ==
    /\ latest_frame = [seq |-> 1, ids |-> <<>>]
    /\ last_processed = 0

\* main lines 1738-1741: the only test is whether there is a frame at all
HasFrame(frame) == frame # NoImage

\* _webcam_capture_thread lines 1357-1368 while nothing is recorded: one
\* round of the loop in which cap.read() delivers a frame; ids are the
\* tracks the detector finds in that frame.  A round whose read fails
\* (lines 1359-1361) leaves latest_frame as it is.
CameraFrame ==
    /\ latest_frame.seq < MaxCaptured
    /\ \E ids \in TrackIdLists :
          latest_frame' = [seq |-> latest_frame.seq + 1, ids |-> ids]
    /\ UNCHANGED last_processed
    /\ UNCHANGED <<trackerVars, frameVars, streamVars, reporterVars,
                   recorderVars, threadVars, serverVars>>

\* main lines 1734-1757: one iteration of the detection loop:
\* get_latest_frame() and, if there is a frame, model.track on it and
\* process_detections with the tracks found in it
LoopIteration ==
    /\ HasFrame(latest_frame)
    /\ TrackFrame(latest_frame.ids)
    /\ last_processed' = latest_frame.seq
    /\ UNCHANGED latest_frame
    /\ UNCHANGED <<frameVars, streamVars, reporterVars, recorderVars,
                   threadVars, serverVars>>

NextLoop ==
    \/ CameraFrame
    \/ LoopIteration

\* C38: the appearance count of a track advances at most once per captured
\* frame: an iteration of the detection loop that finds the frame it has
\* tracked before (the capture thread has delivered no new one) adds to no
\* identifier's frame count and counts nobody
C38_OncePerCapturedFrame ==
    [][(clock' # clock /\ latest_frame.seq = last_processed)
         => (id_frame_counts' = id_frame_counts
             /\ daily_count' = daily_count)]_vars


(* ===================== properties of the tracker ====================== *)
LogOf(id) == {k \in DOMAIN hist.log : hist.log[k].trackId = id}
PostsOf(id) == {k \in DOMAIN image_posts : image_posts[k].personTrackId = id}
QueuedOf(id) == {k \in DOMAIN pending_queue :
                    pending_queue[k].personTrackId = id}

\* C1: every track identifier is counted at most once, and exactly in the
\* call in which its cumulative number of appearances reaches
\* frames_to_count: it is in counted_ids, has one counted event, and
\* daily_count has one unit for it, as soon as and only when it has appeared
\* frames_to_count times; later appearances add no count, upload or event.
C1_CountedOnceAtThreshold ==
    /\ \A id \in IDs :
        /\ (id \in counted_ids) <=> (hist.seen[id].appear >= frames_to_count)
        /\ Cardinality(LogOf(id)) = (IF id \in counted_ids THEN 1 ELSE 0)
        /\ \A k \in LogOf(id) : hist.log[k].frames = frames_to_count
        /\ Cardinality(PostsOf(id)) <= 1
        /\ Cardinality(QueuedOf(id)) <= 1
    /\ daily_count = Len(hist.log)
    /\ daily_count = Cardinality(counted_ids)

\* an identifier that was counted has appeared again afterwards
C1_Witness ==
    \E id \in counted_ids : /\ hist.seen[id].appear > frames_to_count
                             /\ id \in hist.last

\* C2: an identifier whose appearances stay below frames_to_count yields
\* nothing: not in counted_ids or saved_ids, no counted event, no image
\* upload, nothing enqueued.
C2_BelowThresholdNothing ==
    \A id \in IDs :
        hist.seen[id].appear < frames_to_count =>
            /\ id \notin counted_ids
            /\ id \notin saved_ids
            /\ id \notin id_cloud_urls
            /\ LogOf(id) = {}
            /\ PostsOf(id) = {}
            /\ QueuedOf(id) = {}

\* an identifier was seen fewer than frames_to_count times and has gone,
\* while another one was counted
C2_Witness ==
    \E id \in IDs :
        /\ hist.seen[id].appear > 0
        /\ hist.seen[id].appear < frames_to_count
        /\ id \notin hist.last
        /\ daily_count > 0

C4_DwellIsCountTimeMinusFirstSeen ==
    /\ \A k \in DOMAIN hist.log :
          LET e == hist.log[k] IN
          /\ e.dwellSeconds = e.at - hist.seen[e.trackId].first
          /\ e.at <= clock
    /\ \A id \in DOMAIN id_first_seen :
          id_first_seen[id] = hist.seen[id].first
    /\ \A k \in DOMAIN pending_queue :
          LET q == pending_queue[k] IN
          q.dwellSeconds = q.detectedAt - hist.seen[q.personTrackId].first
    /\ \A k \in DOMAIN image_posts :
          \E j \in LogOf(image_posts[k].personTrackId) :
              image_posts[k].dwellSeconds = hist.log[j].dwellSeconds

\* a track was counted after frames that did not come at an even pace
C4_Witness ==
    \E k \in DOMAIN hist.log :
        /\ hist.log[k].dwellSeconds > frames_to_count - 1
        /\ hist.log[k].at < clock

\* C5: only contiguous presence counts: an identifier is counted only in a
\* frame that ends an unbroken run of frames_to_count frames containing it.
C5_OnlyContiguousPresenceCounts ==
    \A k \in DOMAIN hist.log :
        hist.log[k].at = clock =>
            hist.seen[hist.log[k].trackId].run >= frames_to_count

\* C39: after any sequence of process_detections calls daily_count is the
\* size of counted_ids, saved_ids is counted_ids, every id with a stored
\* cloud URL is counted, every counted id has been seen in at least
\* frames_to_count frames, and daily_count never decreases
C39_TrackerBookkeeping ==
    /\ [](/\ daily_count = Cardinality(counted_ids)
          /\ saved_ids = counted_ids
          /\ id_cloud_urls \subseteq counted_ids
          /\ \A id \in counted_ids :
                /\ id \in DOMAIN id_frame_counts
                /\ id_frame_counts[id] >= frames_to_count)
    /\ [][daily_count' >= daily_count]_vars

\* one id counted with a stored URL, one seen but still below the threshold
C39_Witness ==
    /\ daily_count = 1
    /\ \E id \in counted_ids :
          /\ id \in id_cloud_urls
          /\ id_frame_counts[id] > frames_to_count
    /\ \E id \in DOMAIN id_frame_counts :
          id \notin counted_ids /\ id_frame_counts[id] > 0

TrackerInit ==
    /\ id_frame_counts = EmptyDict
    /\ id_first_seen = EmptyDict
    /\ counted_ids = {}
    /\ saved_ids = {}
    /\ id_cloud_urls = {}
    /\ daily_count = 0
    /\ pending_queue = <<>>
    /\ cloud_upload_enabled = TRUE
    /\ cloud_upload_failures = 0
    /\ clock = 0
    /\ image_posts = <<>>
    /\ hist = [seen |-> HistInit, log |-> <<>>, last |-> {}]

(* --------------------------- FrameHolder ------------------------------ *)
\* the threads that read the holder: the MJPEG / single-frame HTTP handler
\* and the camera stream publisher
Readers == {"http", "publisher"}
Writer == "main"

\* a frame is named by the set_frame call that stored it; NoFrame is None
NoFrame == [set |-> 0, kind |-> "none"]
RawFrame(n) == [set |-> n, kind |-> "raw"]
AnnotatedFrame(n) == [set |-> n, kind |-> "annotated"]

\* variant: the lock does not exclude
CanAcquire_NoExclusion(holder) == TRUE

\* threading.Lock: `with self.lock` enters only while nobody holds it
CanAcquire(holder) == holder = None

\* variant: an absent annotated argument leaves the old annotated frame
StoreAnnotated_KeepOld(old, annotated) ==
    IF annotated = NoFrame THEN old ELSE annotated

\* line 130: self.annotated_frame = annotated
StoreAnnotated(old, annotated) == annotated

\* line 134: annotated and self.annotated_frame is not NoFrame
WantsAnnotated(annotated, annotated_frame) ==
    annotated /\ annotated_frame # NoFrame

FrameInit ==
    /\ fh_frame = NoFrame
    /\ fh_annotated = NoFrame
    /\ fh_lock = None
    /\ w_pc = "idle"
    /\ w_arg = [frame |-> NoFrame, annotated |-> NoFrame]
    /\ sets_done = 0
    /\ set_args = <<>>
    /\ r_pc = [r \in Readers |-> "idle"]
    /\ r_want = [r \in Readers |-> FALSE]
    /\ r_test = [r \in Readers |-> FALSE]
    /\ r_ret = [r \in Readers |-> NoFrame]
    /\ r_at = [r \in Readers |-> 0]

\* set_frame(frame, annotated): line 128, enter `with self.lock`
SetFrameAcquire ==
    /\ w_pc = "idle"
    /\ Len(set_args) < MaxSets
    /\ CanAcquire(fh_lock)
    /\ \E has_annotated \in BOOLEAN :
        LET n == Len(set_args) + 1 IN
        /\ w_arg' = [frame |-> RawFrame(n),
                     annotated |-> IF has_annotated THEN AnnotatedFrame(n)
                                   ELSE NoFrame]
        /\ set_args' = Append(set_args, has_annotated)
    /\ fh_lock' = Writer
    /\ w_pc' = "store_frame"
    /\ UNCHANGED <<fh_frame, fh_annotated, sets_done, r_pc, r_want, r_test,
                   r_ret, r_at>>
    /\ UNCHANGED <<trackerVars, streamVars, reporterVars, recorderVars, threadVars,
                   serverVars, loopVars>>

\* line 129: self.frame = frame
SetFrameStoreFrame ==
    /\ w_pc = "store_frame"
    /\ fh_frame' = w_arg.frame
    /\ w_pc' = "store_annotated"
    /\ UNCHANGED <<fh_annotated, fh_lock, w_arg, sets_done, set_args, r_pc,
                   r_want, r_test, r_ret, r_at>>
    /\ UNCHANGED <<trackerVars, streamVars, reporterVars, recorderVars, threadVars,
                   serverVars, loopVars>>

\* line 130: self.annotated_frame = annotated
SetFrameStoreAnnotated ==
    /\ w_pc = "store_annotated"
    /\ fh_annotated' = StoreAnnotated(fh_annotated, w_arg.annotated)
    /\ w_pc' = "release"
    /\ UNCHANGED <<fh_frame, fh_lock, w_arg, sets_done, set_args, r_pc,
                   r_want, r_test, r_ret, r_at>>
    /\ UNCHANGED <<trackerVars, streamVars, reporterVars, recorderVars, threadVars,
                   serverVars, loopVars>>

\* leave `with self.lock`; set_frame returns
SetFrameRelease ==
    /\ w_pc = "release"
    /\ fh_lock' = None
    /\ sets_done' = sets_done + 1
    /\ w_pc' = "idle"
    /\ UNCHANGED <<fh_frame, fh_annotated, w_arg, set_args, r_pc, r_want,
                   r_test, r_ret, r_at>>
    /\ UNCHANGED <<trackerVars, streamVars, reporterVars, recorderVars, threadVars,
                   serverVars, loopVars>>

\* get_frame(annotated): line 133, enter `with self.lock`
GetFrameAcquire(r) ==
    /\ r_pc[r] \in {"idle", "returned"}
    /\ CanAcquire(fh_lock)
    /\ \E annotated \in BOOLEAN : r_want' = [r_want EXCEPT ![r] = annotated]
    /\ fh_lock' = r
    /\ r_at' = [r_at EXCEPT ![r] = sets_done]
    /\ r_pc' = [r_pc EXCEPT ![r] = "test"]
    /\ r_ret' = [r_ret EXCEPT ![r] = NoFrame]
    /\ UNCHANGED <<fh_frame, fh_annotated, w_pc, w_arg, sets_done, set_args,
                   r_test>>
    /\ UNCHANGED <<trackerVars, streamVars, reporterVars, recorderVars, threadVars,
                   serverVars, loopVars>>

\* line 134: evaluate the condition
GetFrameTest(r) ==
    /\ r_pc[r] = "test"
    /\ r_test' = [r_test EXCEPT ![r] = WantsAnnotated(r_want[r], fh_annotated)]
    /\ r_pc' = [r_pc EXCEPT ![r] = "fetch"]
    /\ UNCHANGED <<fh_frame, fh_annotated, fh_lock, w_pc, w_arg, sets_done,
                   set_args, r_want, r_ret, r_at>>
    /\ UNCHANGED <<trackerVars, streamVars, reporterVars, recorderVars, threadVars,
                   serverVars, loopVars>>

\* line 135 / 136: read the field to return
GetFrameFetch(r) ==
    /\ r_pc[r] = "fetch"
    /\ r_ret' = [r_ret EXCEPT ![r] = IF r_test[r] THEN fh_annotated
                                     ELSE fh_frame]
    /\ r_pc' = [r_pc EXCEPT ![r] = "release"]
    /\ UNCHANGED <<fh_frame, fh_annotated, fh_lock, w_pc, w_arg, sets_done,
                   set_args, r_want, r_test, r_at>>
    /\ UNCHANGED <<trackerVars, streamVars, reporterVars, recorderVars, threadVars,
                   serverVars, loopVars>>

\* leave `with self.lock`; get_frame returns r_ret
GetFrameRelease(r) ==
    /\ r_pc[r] = "release"
    /\ fh_lock' = None
    /\ r_pc' = [r_pc EXCEPT ![r] = "returned"]
    /\ UNCHANGED <<fh_frame, fh_annotated, w_pc, w_arg, sets_done, set_args,
                   r_want, r_test, r_ret, r_at>>
    /\ UNCHANGED <<trackerVars, streamVars, reporterVars, recorderVars, threadVars,
                   serverVars, loopVars>>

NextFrame ==
    \/ SetFrameAcquire
    \/ SetFrameStoreFrame
    \/ SetFrameStoreAnnotated
    \/ SetFrameRelease
    \/ \E r \in Readers : GetFrameAcquire(r)
    \/ \E r \in Readers : GetFrameTest(r)
    \/ \E r \in Readers : GetFrameFetch(r)
    \/ \E r \in Readers : GetFrameRelease(r)

(* =================== properties of the frame holder =================== *)
\* the frames stored by set_frame call n (0: before the first call)
FramesOfSet(n) ==
    IF n = 0 THEN {NoFrame}
    ELSE {RawFrame(n)} \cup (IF set_args[n] THEN {AnnotatedFrame(n)} ELSE {})

\* C6: under any interleaving of the writer and the readers, a get_frame
\* returns a frame stored by the set_frame call that was the latest one
\* completed when the reader took the lock, and what a reader sees of the
\* two fields never mixes two set_frame calls.
C6_NoTornFrame ==
    /\ \A r \in Readers :
          r_pc[r] \in {"release", "returned"} =>
              r_ret[r] \in FramesOfSet(r_at[r])
    /\ \A r \in Readers :
          r_pc[r] \in {"test", "fetch", "release"} =>
              /\ r_at[r] = sets_done
              /\ fh_frame \in FramesOfSet(sets_done) \ {AnnotatedFrame(sets_done)}
              /\ fh_annotated \in {NoFrame, AnnotatedFrame(sets_done)}

\* a reader returned a frame while the writer had already started the next
\* set_frame call
C6_Witness ==
    \E r \in Readers :
        /\ r_pc[r] = "returned"
        /\ r_ret[r] # NoFrame
        /\ w_pc # "idle"
        /\ r_at[r] < Len(set_args)

\* C7: get_frame(annotated) returns the annotated frame of the latest
\* set_frame when annotated is asked for and that call supplied one,
\* otherwise the raw frame of the latest set_frame, and None when set_frame
\* was never called; a set_frame without annotated frame clears the old one.
C7_GetFrameValue ==
    /\ \A r \in Readers :
          r_pc[r] = "returned" =>
              r_ret[r] = (IF r_at[r] = 0 THEN NoFrame
                          ELSE IF r_want[r] /\ set_args[r_at[r]]
                               THEN AnnotatedFrame(r_at[r])
                               ELSE RawFrame(r_at[r]))
    /\ (w_pc = "idle" /\ sets_done > 0 /\ ~set_args[sets_done]) =>
          fh_annotated = NoFrame

\* an annotated frame was asked for after a set_frame without one had
\* replaced a set_frame with one, and the raw frame came back
C7_Witness ==
    \E r \in Readers :
        /\ r_pc[r] = "returned"
        /\ r_want[r]
        /\ r_at[r] > 1
        /\ set_args[r_at[r] - 1]
        /\ ~set_args[r_at[r]]
        /\ r_ret[r] = RawFrame(r_at[r])

(* -------------------------- stream publisher -------------------------- *)
Min(a, b) == IF a < b THEN a ELSE b
RECURSIVE Pow2(_)
Pow2(n) == IF n = 0 THEN 1 ELSE 2 * Pow2(n - 1)

\* variant: the delay doubles without a ceiling
BackoffDelay_Uncapped(failures) ==
    reconnect_delay * Pow2(failures - 1)

\* line 486: min(reconnect_delay * 2 ** (consecutive_failures - 1), max)
BackoffDelay(failures) ==
    Min(reconnect_delay * Pow2(failures - 1), max_reconnect_delay)

\* elapsed time since the last frame is only compared with stream_interval
Elapse(since, d) == Min(since + d, stream_interval)

\* line 565: current_time - last_frame_time < self.stream_interval
RateLimited(since) == since < stream_interval

\* variant: the idle branch does not sleep
AfterIdleSleep_NoSleep(since) == since

\* line 561: time.sleep(0.1) in the idle branch
AfterIdleSleep(since) == Elapse(since, IdleSleep)

\* variant: start_streaming does not need the publisher to be idle, and
\* any other message type starts the stream as well
OnMessage_AnyStarts(active, msg_type) ==
    IF msg_type = "stop_streaming" THEN FALSE ELSE TRUE

\* lines 546-553: the effect of a control message on streaming_active
OnMessage(active, msg_type) ==
    CASE msg_type = "start_streaming" -> TRUE
      [] msg_type = "stop_streaming" -> FALSE
      [] OTHER -> active

\* get_frame as one step (it runs under the holder's lock)
get_frame(annotated) ==
    IF WantsAnnotated(annotated, fh_annotated) THEN fh_annotated ELSE fh_frame

StreamInit ==
    /\ p_kind \in {"camera", "screen"}
    /\ running = TRUE
    /\ connected = FALSE
    /\ authenticated = FALSE
    /\ streaming_active = FALSE
    /\ ws = "none"
    /\ consecutive_failures = 0
    /\ frames_sent = 0
    /\ since_last = stream_interval
    /\ reconnect_wait = 0
    /\ p_pc = "loop"
    /\ stop_pc = "idle"
    /\ wire = <<>>
    /\ p_hist = [auth_reply |-> "none", viewer |-> FALSE,
                 started_now |-> FALSE, resumed |-> FALSE, err |-> "none"]

Sent(msg) == [msg |-> msg, viewer |-> p_hist.viewer,
              active |-> streaming_active, running |-> running]

\* _connect_loop, lines 477-488: except Exception around _connect_and_stream
ConnectLoopExcept ==
    IF running
    THEN /\ connected' = FALSE
         /\ authenticated' = FALSE
         /\ streaming_active' = FALSE
         /\ consecutive_failures' = consecutive_failures + 1
         /\ reconnect_wait' = BackoffDelay(consecutive_failures + 1)
         /\ p_pc' = "backoff"
    ELSE /\ p_pc' = "loop"
         /\ UNCHANGED <<connected, authenticated, streaming_active,
                        consecutive_failures, reconnect_wait>>

\* variant: the clean up leaves streaming_active as it is
LoopBreak_KeepsStreaming ==
    /\ connected' = FALSE
    /\ UNCHANGED streaming_active
    /\ ws' = "closed"
    /\ p_pc' = "loop"

\* lines 588-602: an exception inside the streaming loop, then the clean up
LoopBreak ==
    /\ connected' = FALSE
    /\ streaming_active' = FALSE
    /\ ws' = "closed"
    /\ p_pc' = "loop"

\* _connect_loop line 474: while self.running
LoopCheck ==
    /\ p_pc = "loop"
    /\ p_pc' = IF running THEN "connecting" ELSE "exit"
    /\ UNCHANGED <<p_kind, running, connected, authenticated,
                   streaming_active, ws, consecutive_failures, frames_sent,
                   since_last, reconnect_wait, stop_pc, wire, p_hist>>
    /\ UNCHANGED <<trackerVars, frameVars, reporterVars, recorderVars, threadVars,
                   serverVars, loopVars>>

\* _connect_and_stream lines 501-514: connect and send the auth message
Connect ==
    /\ p_pc = "connecting"
    /\ \E ok \in BOOLEAN :
        /\ p_hist' = [auth_reply |-> "none", viewer |-> FALSE,
                      started_now |-> FALSE, resumed |-> FALSE,
                      err |-> IF ok THEN "none" ELSE "connect"]
        /\ IF ok
           THEN /\ ws' = "open"
                /\ connected' = TRUE
                /\ wire' = <<Sent("auth")>>
                /\ p_pc' = "auth_wait"
                /\ UNCHANGED <<authenticated, streaming_active,
                               consecutive_failures, reconnect_wait>>
           ELSE /\ running => consecutive_failures < MaxFailures
                /\ ws' = "closed"
                /\ wire' = <<>>
                /\ ConnectLoopExcept
    /\ UNCHANGED <<p_kind, running, frames_sent, since_last, stop_pc>>
    /\ UNCHANGED <<trackerVars, frameVars, reporterVars, recorderVars, threadVars,
                   serverVars, loopVars>>

\* line 488: time.sleep(delay) is over
BackoffDone ==
    /\ p_pc = "backoff"
    /\ p_pc' = "loop"
    /\ p_hist' = [p_hist EXCEPT !.err = "none"]
    /\ UNCHANGED <<p_kind, running, connected, authenticated,
                   streaming_active, ws, consecutive_failures, frames_sent,
                   since_last, reconnect_wait, stop_pc, wire>>
    /\ UNCHANGED <<trackerVars, frameVars, reporterVars, recorderVars, threadVars,
                   serverVars, loopVars>>

\* lines 526-530: a rejected auth ends the publisher, self.running = False
RunningAfterAuth_Retry(run, reply) == run
RunningAfterAuth(run, reply) == IF reply = "error" THEN FALSE ELSE run

\* lines 518-536: the reply to the auth message
AuthReplies == {"auth_success", "error", "other", "exception"}
AuthReply ==
    /\ p_pc = "auth_wait"
    /\ \E reply \in AuthReplies :
        LET r == IF ws = "open" THEN reply ELSE "exception" IN
        /\ p_hist' = [p_hist EXCEPT !.auth_reply = r,
                                    !.err = IF r = "exception" THEN "auth"
                                            ELSE @]
        /\ CASE r = "auth_success" ->
                  /\ authenticated' = TRUE
                  /\ consecutive_failures' = 0
                  /\ since_last' = stream_interval
                  /\ p_pc' = "recv"
                  /\ UNCHANGED <<running, connected, streaming_active, ws,
                                 reconnect_wait>>
             [] r = "error" ->
                  /\ ws' = "closed"
                  /\ running' = RunningAfterAuth(running, r)
                  /\ p_pc' = "loop"
                  /\ UNCHANGED <<connected, authenticated, streaming_active,
                                 consecutive_failures, since_last,
                                 reconnect_wait>>
             [] r = "other" ->
                  /\ since_last' = stream_interval
                  /\ p_pc' = "recv"
                  /\ UNCHANGED <<running, connected, authenticated,
                                 streaming_active, ws, consecutive_failures,
                                 reconnect_wait>>
             [] OTHER ->
                  /\ running => consecutive_failures < MaxFailures
                  /\ ConnectLoopExcept
                  /\ UNCHANGED <<running, ws, since_last>>
    /\ UNCHANGED <<p_kind, frames_sent, stop_pc, wire>>
    /\ UNCHANGED <<trackerVars, frameVars, reporterVars, recorderVars, threadVars,
                   serverVars, loopVars>>

\* lines 537-557: the loop condition and the poll for a control message
Received == {"start_streaming", "stop_streaming", "other", "invalid_json",
             "timeout", "closed", "bad_message"}
Recv ==
    /\ p_pc = "recv"
    /\ IF ~(running /\ connected)
       THEN /\ streaming_active' = FALSE
            /\ ws' = "closed"
            /\ p_pc' = "loop"
            /\ UNCHANGED <<connected, since_last, p_hist>>
       ELSE \E got \in Received, d \in {0, RecvTimeout} :
            LET m == IF ws = "open" THEN got ELSE "closed" IN
            /\ (m = "timeout") => (d = RecvTimeout)
            /\ IF m \in {"closed", "bad_message"}
               THEN /\ LoopBreak
                    /\ p_hist' = [p_hist EXCEPT !.err = "loop"]
                    /\ UNCHANGED since_last
               ELSE /\ streaming_active' = OnMessage(streaming_active, m)
                    /\ since_last' = Elapse(since_last, d)
                    /\ p_hist' = [p_hist EXCEPT
                          !.viewer = CASE m = "start_streaming" -> TRUE
                                       [] m = "stop_streaming" -> FALSE
                                       [] OTHER -> @,
                          !.started_now =
                               m = "start_streaming" /\ ~streaming_active,
                          !.resumed = @ \/ (/\ m = "start_streaming"
                                            /\ ~streaming_active
                                            /\ Len(wire) > 1)]
                    /\ p_pc' = "gate"
                    /\ UNCHANGED <<connected, ws>>
    /\ UNCHANGED <<p_kind, running, authenticated, consecutive_failures,
                   frames_sent, reconnect_wait, stop_pc, wire>>
    /\ UNCHANGED <<trackerVars, frameVars, reporterVars, recorderVars, threadVars,
                   serverVars, loopVars>>

\* lines 560-562: only stream if viewers are watching
Gate ==
    /\ p_pc = "gate"
    /\ IF ~streaming_active
       THEN /\ since_last' = AfterIdleSleep(since_last)
            /\ p_pc' = "recv"
       ELSE /\ p_pc' = "rate"
            /\ UNCHANGED since_last
    /\ UNCHANGED <<p_kind, running, connected, authenticated,
                   streaming_active, ws, consecutive_failures, frames_sent,
                   reconnect_wait, stop_pc, wire, p_hist>>
    /\ UNCHANGED <<trackerVars, frameVars, reporterVars, recorderVars, threadVars,
                   serverVars, loopVars>>

\* lines 564-567: at most one frame per stream_interval
Rate ==
    /\ p_pc = "rate"
    /\ IF RateLimited(since_last)
       THEN /\ since_last' = Elapse(since_last, BusySleep)
            /\ p_pc' = "recv"
       ELSE /\ p_pc' = "send"
            /\ UNCHANGED since_last
    /\ UNCHANGED <<p_kind, running, connected, authenticated,
                   streaming_active, ws, consecutive_failures, frames_sent,
                   reconnect_wait, stop_pc, wire, p_hist>>
    /\ UNCHANGED <<trackerVars, frameVars, reporterVars, recorderVars, threadVars,
                   serverVars, loopVars>>

\* variant: the payload goes out without its framing message
FrameMessages_BinaryOnly == <<Sent("binary")>>

\* lines 578-580 (camera) and 795-797 (screen): ws.send(frame_message),
\* then ws.send_binary(jpeg_bytes)
FrameMessages == <<Sent("frame"), Sent("binary")>>

\* lines 569-582 (camera) and 786-799 (screen): fetch a frame and send it
SendFrame ==
    /\ p_pc = "send"
    /\ \E captured \in BOOLEAN, sent \in {"both", "text_only", "nothing"} :
        LET available == IF p_kind = "camera" THEN get_frame(TRUE) # NoFrame
                         ELSE captured
            out == IF ws = "open" THEN sent ELSE "nothing"
        IN  IF ~available
            THEN /\ p_pc' = "recv"
                 /\ UNCHANGED <<connected, streaming_active, ws, frames_sent,
                                since_last, wire, p_hist>>
            ELSE CASE out = "both" ->
                        /\ frames_sent < MaxSent
                        /\ wire' = wire \o FrameMessages
                        /\ frames_sent' = frames_sent + 1
                        /\ since_last' = 0
                        /\ p_pc' = "recv"
                        /\ UNCHANGED <<connected, streaming_active, ws,
                                       p_hist>>
                   [] out = "text_only" ->
                        /\ frames_sent < MaxSent
                        /\ wire' = Append(wire, Sent("frame"))
                        /\ LoopBreak
                        /\ p_hist' = [p_hist EXCEPT !.err = "loop"]
                        /\ UNCHANGED <<frames_sent, since_last>>
                   [] OTHER ->
                        /\ LoopBreak
                        /\ p_hist' = [p_hist EXCEPT !.err = "loop"]
                        /\ UNCHANGED <<frames_sent, since_last, wire>>
    /\ UNCHANGED <<p_kind, running, authenticated, consecutive_failures,
                   reconnect_wait, stop_pc>>
    /\ UNCHANGED <<trackerVars, frameVars, reporterVars, recorderVars, threadVars,
                   serverVars, loopVars>>

\* stop(), lines 606-608: the three flags
StopFlags ==
    /\ stop_pc = "idle"
    /\ running' = FALSE
    /\ connected' = FALSE
    /\ streaming_active' = FALSE
    /\ stop_pc' = "close"
    /\ UNCHANGED <<p_kind, authenticated, ws, consecutive_failures,
                   frames_sent, since_last, reconnect_wait, p_pc, wire,
                   p_hist>>
    /\ UNCHANGED <<trackerVars, frameVars, reporterVars, recorderVars, threadVars,
                   serverVars, loopVars>>

\* stop(), lines 609-613: close the socket if there is one
StopClose ==
    /\ stop_pc = "close"
    /\ ws' = IF ws = "none" THEN "none" ELSE "closed"
    /\ stop_pc' = "done"
    /\ UNCHANGED <<p_kind, running, connected, authenticated,
                   streaming_active, consecutive_failures, frames_sent,
                   since_last, reconnect_wait, p_pc, wire, p_hist>>
    /\ UNCHANGED <<trackerVars, frameVars, reporterVars, recorderVars, threadVars,
                   serverVars, loopVars>>

\* the main loop publishes its first frame: frame_holder.set_frame(...)
PublishFrame ==
    /\ fh_frame = NoFrame
    /\ fh_frame' = RawFrame(1)
    /\ fh_annotated' = StoreAnnotated(fh_annotated, AnnotatedFrame(1))
    /\ UNCHANGED <<fh_lock, w_pc, w_arg, sets_done, set_args, r_pc, r_want,
                   r_test, r_ret, r_at>>
    /\ UNCHANGED <<trackerVars, streamVars, reporterVars, recorderVars, threadVars,
                   serverVars, loopVars>>

(* ================= properties of the stream publisher ================= *)
FrameItems == {k \in DOMAIN wire : wire[k].msg \in {"frame", "binary"}}
LoopPcs == {"recv", "gate", "rate", "send"}

C9_StartStreamsWithinIteration ==
    /\ [](p_hist.started_now =>
            /\ (p_pc = "gate" /\ running) => streaming_active
            /\ (p_pc = "rate") => ~RateLimited(since_last))
    /\ [][(/\ p_hist.started_now
            /\ p_kind = "camera"
            /\ p_pc = "send"
            /\ get_frame(TRUE) # NoFrame
            /\ p_pc' = "recv"
            /\ connected') => frames_sent' = frames_sent + 1]_vars

\* an authenticated publisher that had streamed and gone idle read
\* start_streaming and has sent a frame in that iteration
C9_Witness ==
    /\ p_hist.started_now
    /\ p_hist.resumed
    /\ authenticated
    /\ p_hist.auth_reply = "auth_success"
    /\ p_pc = "recv"
    /\ since_last = 0
    /\ Len(wire) >= 5
    /\ p_kind = "camera"

\* C10: frames are streamed on a connection only after the backend has
\* answered auth_success on it; any other reply leads to no frame.
C10_StreamOnlyAfterAuthSuccess ==
    FrameItems # {} => p_hist.auth_reply = "auth_success"

\* C11: after any socket error (failed connect, failed auth exchange, an
\* error or a closed connection inside the streaming loop) the publisher is
\* disconnected and sleeps a backoff delay before it connects again: no
\* connection attempt follows a socket error without that delay.
C11_BackoffAfterSocketError ==
    /\ (p_pc = "connecting") => (p_hist.err = "none")
    /\ (p_hist.err # "none" /\ running) => ~connected

\* C12: after an auth reply of type error the publisher makes no further
\* connection attempt at all (it stops running, its socket closed), and the
\* step that handles the rejection changes nothing of the tracker, the
\* reporter or the frame holder.
C12_RejectedAuthNoRetry ==
    /\ [](p_hist.auth_reply = "error" =>
            /\ ~running
            /\ p_pc \in {"loop", "exit"}
            /\ ws = "closed")
    /\ [][(p_pc = "auth_wait" /\ p_hist'.auth_reply = "error") =>
             UNCHANGED <<trackerVars, frameVars, reporterVars, recorderVars, threadVars>>]_vars

\* the publisher was rejected, its thread has ended, and the main loop has
\* published a frame
C12_Witness ==
    /\ p_hist.auth_reply = "error"
    /\ p_pc = "exit"
    /\ fh_frame # NoFrame

\* C32: the delay slept after the n-th consecutive failure is
\* min(reconnect_delay * 2^(n-1), max_reconnect_delay): 5 s after the first,
\* twice the previous delay after each further one, never less than before
\* and never more than 60 s; a successful authentication sets the failure
\* counter to 0, so the failure after it waits 5 s again
C32_BackoffDelay ==
    /\ [](p_pc = "backoff" =>
            /\ consecutive_failures >= 1
            /\ reconnect_wait >= reconnect_delay
            /\ reconnect_wait <= max_reconnect_delay)
    /\ [][consecutive_failures' # consecutive_failures =>
            \/ /\ consecutive_failures' = consecutive_failures + 1
               /\ p_pc' = "backoff"
               /\ reconnect_wait' =
                     IF consecutive_failures = 0 THEN reconnect_delay
                     ELSE Min(2 * reconnect_wait, max_reconnect_delay)
               /\ consecutive_failures > 0 => reconnect_wait' >= reconnect_wait
            \/ /\ consecutive_failures' = 0
               /\ p_hist'.auth_reply = "auth_success"]_vars
    /\ [][(p_pc = "auth_wait" /\ p_hist'.auth_reply = "auth_success")
            => consecutive_failures' = 0]_vars

\* the publisher sleeps the longest delay: doubling once more would have
\* passed the maximum
C32_Witness ==
    /\ p_pc = "backoff"
    /\ reconnect_wait = max_reconnect_delay
    /\ reconnect_delay * Pow2(consecutive_failures - 1) > max_reconnect_delay

\* C33: every binary payload sent on a connection comes right after one
\* framing message {event: frame} sent for it on that connection, and no
\* framing message is followed by anything but its payload: after the auth
\* message the sent messages alternate framing message, payload (a framing
\* message without payload can only be the last thing a connection sent)
C33_FramingAlternates ==
    \A k \in DOMAIN wire :
        /\ (k = 1) <=> (wire[k].msg = "auth")
        /\ wire[k].msg = "binary" => wire[k - 1].msg = "frame"
        /\ wire[k].msg = "frame" => wire[k - 1].msg # "frame"
        /\ (wire[k].msg = "frame" /\ k < Len(wire))
              => wire[k + 1].msg = "binary"

\* a screen publisher has sent two frames on its connection
C33_Witness ==
    /\ p_kind = "screen"
    /\ Len(wire) = 5
    /\ wire[4].msg = "frame"
    /\ wire[5].msg = "binary"

\* C34: a publisher does not carry the streaming state from one connection
\* to the next: every way out of a connection (closed connection, socket
\* error, exception, stop()) leaves streaming_active false, so outside the
\* streaming loop it is false, and on a new connection it is false until
\* start_streaming was received on that connection
C34_StreamingNotCarriedOver ==
    /\ [](p_pc \notin LoopPcs => ~streaming_active)
    /\ [](streaming_active => p_hist.viewer)
    /\ [][(p_pc \in LoopPcs \cup {"auth_wait"} /\ p_pc' \in {"loop", "backoff"})
            => ~streaming_active']_vars
    /\ [][(stop_pc = "idle" /\ stop_pc' = "close") => ~streaming_active']_vars

\* a publisher that has streamed on an earlier connection is authenticated
\* on a new one, on which it has sent nothing but the auth message, and idle
C34_Witness ==
    /\ frames_sent > 0
    /\ Len(wire) = 1
    /\ p_hist.auth_reply = "auth_success"
    /\ p_pc = "gate"
    /\ running /\ connected /\ authenticated
    /\ ~streaming_active

\* is_connected(), lines 615-617
is_connected == connected /\ authenticated

\* C35: authenticated implies connected, and is_connected() is true only
\* while the current connection has completed its authentication: not after
\* a connection was lost, and not during a reconnect before the new auth
\* reply has arrived
C35_AuthenticatedImpliesConnected ==
    /\ authenticated => connected
    /\ is_connected => p_hist.auth_reply = "auth_success"

NextStream ==
    \/ LoopCheck
    \/ Connect
    \/ BackoffDone
    \/ AuthReply
    \/ Recv
    \/ Gate
    \/ Rate
    \/ SendFrame
    \/ StopFlags
    \/ StopClose
    \/ PublishFrame

(* =================== DetectionReporter: the worker ==================== *)
\* what the backend does with one batch POST
BatchOutcomes == {"201", "200", "500", "exception"}
TrackIdsOf(items) == {items[k].personTrackId : k \in DOMAIN items}

\* variant: the interval is not looked at
ShouldUpload_SizeOnly(b, since) == Len(b) >= BatchSize

\* lines 971-974: should_upload
ShouldUpload(b, since) ==
    Len(b) >= BatchSize \/ (Len(b) > 0 /\ since >= batch_interval)

\* _upload_batch: the pending queue afterwards and the line it prints
upload_batch(queue, b, outcome) ==
    CASE b = <<>> -> [queue |-> queue, printed |-> "none"]
      [] outcome = "201" -> [queue |-> queue, printed |-> "Uploaded"]
      [] outcome = "exception" ->
            [queue |-> queue \o b, printed |-> "Upload error"]
      [] OTHER -> [queue |-> queue, printed |-> "Upload failed"]

\* n successive calls process_detections([obj_id]), one frame period apart
RECURSIVE Visit(_, _, _, _, _)
Visit(st, obj_id, now, n, outcome) ==
    IF n = 0 THEN st
    ELSE Visit(ProcessOne(st, obj_id, now + 1, outcome), obj_id, now + 1,
               n - 1, outcome)

ReporterInit ==
    /\ rep_running = TRUE
    /\ batch = <<>>
    /\ since_upload = 0
    /\ u_pc = "get"
    /\ next_track = 1
    /\ batch_posts = 0
    /\ last_response = "none"
    /\ held = 0
    /\ flushed = {}

\* a visitor stays in front of the camera for frames_to_count frames: the
\* main loop calls process_detections with the visitor's track id that many
\* times, and the last call counts the track and reports it; the image
\* endpoint answers with one of the given outcomes.  The calls are made in
\* the main loop only, which has ended when main calls reporter.stop()
CountedVisit(outcomes, last_track) ==
    /\ next_track <= last_track
    /\ rep_running
    /\ \E outcome \in outcomes :
        LET st == [frame_counts |-> id_frame_counts,
                   first_seen |-> id_first_seen,
                   counted |-> counted_ids, saved |-> saved_ids,
                   urls |-> id_cloud_urls, daily |-> daily_count,
                   queue |-> pending_queue,
                   enabled |-> cloud_upload_enabled,
                   failures |-> cloud_upload_failures,
                   posts |-> image_posts, log |-> hist.log]
            res == Visit(st, next_track, clock, frames_to_count, outcome)
        IN  /\ clock' = clock + frames_to_count
            /\ id_frame_counts' = res.frame_counts
            /\ id_first_seen' = res.first_seen
            /\ counted_ids' = res.counted
            /\ saved_ids' = res.saved
            /\ id_cloud_urls' = res.urls
            /\ daily_count' = res.daily
            /\ pending_queue' = res.queue
            /\ cloud_upload_enabled' = res.enabled
            /\ cloud_upload_failures' = res.failures
            /\ image_posts' = res.posts
            /\ hist' = [hist EXCEPT !.log = res.log]
    /\ next_track' = next_track + 1
    /\ UNCHANGED <<rep_running, batch, since_upload, u_pc, batch_posts,
                   last_response, held, flushed>>
    /\ UNCHANGED <<frameVars, streamVars, recorderVars, threadVars,
                   serverVars, loopVars>>

\* the backend answers the image upload in any of its ways
VisitOnline == CountedVisit(PostOutcomes, MaxCounted)
VisitFew == CountedVisit(PostOutcomes, MaxQueued)
\* the image endpoint cannot be reached: every visit is enqueued
VisitOffline == CountedVisit({"exception"}, BatchSize + 2)

\* _upload_worker lines 960-967: the loop condition and pending_queue.get
WorkerGet ==
    /\ u_pc = "get"
    /\ IF ~rep_running
       THEN /\ u_pc' = "exit"
            /\ UNCHANGED <<pending_queue, batch, since_upload, held>>
       ELSE \E d \in {0, PollTimeout} :
            /\ IF pending_queue # <<>>
               THEN /\ batch' = Append(batch, Head(pending_queue))
                    /\ pending_queue' = Tail(pending_queue)
               ELSE /\ d = PollTimeout
                    /\ UNCHANGED <<pending_queue, batch>>
            /\ since_upload' = Min(since_upload + d,
                                   batch_interval + PollTimeout)
            /\ held' = IF batch = <<>> THEN 0 ELSE held + d
            /\ u_pc' = "check"
    /\ UNCHANGED <<rep_running, next_track, batch_posts, last_response,
                   flushed>>
    /\ UNCHANGED <<id_frame_counts, id_first_seen, counted_ids, saved_ids,
                   id_cloud_urls, daily_count, cloud_upload_enabled,
                   cloud_upload_failures, clock, image_posts, hist>>
    /\ UNCHANGED <<frameVars, streamVars, recorderVars, threadVars,
                   serverVars, loopVars>>

\* _upload_worker lines 969-979: flush the batch when it is due; the batch
\* endpoint answers with one of the given outcomes
WorkerFlush(outcomes) ==
    /\ u_pc = "check"
    /\ IF ShouldUpload(batch, since_upload)
       THEN \E outcome \in outcomes, took \in {0, PollTimeout} :
            /\ batch_posts < MaxBatchPosts
            /\ pending_queue' = upload_batch(pending_queue, batch,
                                             outcome).queue
            /\ batch_posts' = batch_posts + 1
            /\ last_response' = outcome
            /\ batch' = <<>>
            /\ since_upload' = took
            /\ held' = 0
            /\ flushed' = flushed \cup {IF Len(batch) >= BatchSize
                                        THEN "size" ELSE "interval"}
       ELSE UNCHANGED <<pending_queue, batch, since_upload, batch_posts,
                        last_response, held, flushed>>
    /\ u_pc' = "get"
    /\ UNCHANGED <<rep_running, next_track>>
    /\ UNCHANGED <<id_frame_counts, id_first_seen, counted_ids, saved_ids,
                   id_cloud_urls, daily_count, cloud_upload_enabled,
                   cloud_upload_failures, clock, image_posts, hist>>
    /\ UNCHANGED <<frameVars, streamVars, recorderVars, threadVars,
                   serverVars, loopVars>>

\* the batch endpoint answers in any of its ways
WorkerCheck == WorkerFlush(BatchOutcomes)
\* the batch endpoint takes every batch
WorkerCheckAccepted == WorkerFlush({"201"})

\* DetectionReporter.stop: self.running = False, then a bounded join
ReporterStop ==
    /\ rep_running
    /\ rep_running' = FALSE
    /\ UNCHANGED <<batch, since_upload, u_pc, next_track, batch_posts,
                   last_response, held, flushed>>
    /\ UNCHANGED <<trackerVars, frameVars, streamVars, recorderVars, threadVars,
                   serverVars, loopVars>>

(* ===================== properties of the reporter ===================== *)
\* C13: once cloud_upload_failures has reached max_cloud_failures the image
\* upload is disabled and stays disabled: every later counted visit makes no
\* image POST and enqueues a path-only event (wasCounted true) for its
\* track.  The failures may be 404 answers as well as any others.
C13_UploadDisabledForGood ==
    /\ [](cloud_upload_failures >= max_cloud_failures =>
            ~cloud_upload_enabled)
    /\ [][~cloud_upload_enabled =>
            /\ ~cloud_upload_enabled'
            /\ image_posts' = image_posts
            /\ next_track' # next_track =>
                  /\ next_track \in counted_ids'
                  /\ next_track \notin id_cloud_urls'
                  /\ Len(pending_queue') = Len(pending_queue) + 1
                  /\ pending_queue'[Len(pending_queue')].personTrackId
                        = next_track
                  /\ pending_queue'[Len(pending_queue')].wasCounted]_vars

\* upload was disabled by max_cloud_failures failures in a row and a later
\* visit has been counted and enqueued without an image POST
C13_Witness ==
    /\ ~cloud_upload_enabled
    /\ cloud_upload_failures = max_cloud_failures
    /\ Len(image_posts) >= max_cloud_failures
    /\ next_track - 1 > Len(image_posts)
    /\ Len(pending_queue) > max_cloud_failures
    /\ pending_queue[Len(pending_queue)].personTrackId = next_track - 1

\* C14: no visit is lost: a track that becomes counted has its image taken
\* by the backend or a path-only event enqueued, and an event leaves the
\* pending queue and the worker's batch only in a batch POST that the
\* backend accepts.
C14_NoVisitLost ==
    [][/\ \A id \in counted_ids' \ counted_ids :
            \/ id \in id_cloud_urls'
            \/ \E k \in DOMAIN pending_queue' :
                  /\ pending_queue'[k].personTrackId = id
                  /\ pending_queue'[k].wasCounted
       /\ \A id \in TrackIdsOf(pending_queue \o batch) :
            \/ id \in TrackIdsOf(pending_queue' \o batch')
            \/ /\ batch_posts' = batch_posts + 1
               /\ last_response' \in {"201", "200"}]_vars

\* C15: when a batch POST fails, by an exception or by a non-2xx answer,
\* every event of the batch is back on the pending queue afterwards; after
\* a 2xx answer none is.
C15_FailedBatchRequeued ==
    [][batch_posts' = batch_posts + 1 =>
        IF last_response' \in {"201", "200"}
        THEN pending_queue' = pending_queue
        ELSE \A k \in DOMAIN batch :
                \E j \in DOMAIN pending_queue' :
                    pending_queue'[j] = batch[k]]_vars

\* C16: the worker flushes exactly when, at its check, the batch holds
\* BatchSize items or is non-empty with batch_interval elapsed since the
\* last flush; it never posts an empty batch, the batch never exceeds
\* BatchSize items, and no item sits in the batch for longer than
\* batch_interval plus one poll timeout.
C16_FlushWhenDue ==
    /\ [](/\ Len(batch) <= BatchSize
          /\ held <= batch_interval + PollTimeout
          /\ (u_pc = "get" /\ rep_running) => Len(batch) < BatchSize)
    /\ [][(u_pc = "check" /\ u_pc' = "get") =>
            /\ (batch_posts' # batch_posts) <=>
                  \/ Len(batch) = BatchSize
                  \/ batch # <<>> /\ since_upload >= batch_interval
            /\ (batch_posts' # batch_posts) =>
                  batch # <<>> /\ batch' = <<>>
            /\ (batch_posts' = batch_posts) => batch' = batch]_vars

\* the worker has flushed once a full batch before the interval was over
\* and once a smaller batch because the interval had elapsed, and holds an
\* item again
C16_Witness ==
    /\ flushed = {"size", "interval"}
    /\ batch_posts = 2
    /\ batch # <<>>
    /\ u_pc = "get"
    /\ rep_running

\* process_detections lines 1045-1059 for the frame in which obj_id reaches
\* the threshold: the track is counted before its image is uploaded
BeginCount(st, obj_id, now) ==
    LET s1 == InitTrack(st, obj_id, now)
        s2 == [s1 EXCEPT !.frame_counts[obj_id] = @ + 1]
    IN  [s2 EXCEPT !.counted = @ \cup {obj_id},
                   !.saved = @ \cup {obj_id},
                   !.daily = @ + 1]

\* process_detections lines 1062-1088: the image upload has returned
FinishCount(st, obj_id, now, outcome) ==
    LET dwell == DwellSeconds(now, st.first_seen[obj_id])
        rep == report_detection_with_image(
                   [enabled |-> st.enabled, failures |-> st.failures,
                    posts |-> st.posts, url |-> None],
                   obj_id, dwell, outcome)
        s3 == [st EXCEPT !.enabled = rep.enabled,
                         !.failures = rep.failures,
                         !.posts = rep.posts,
                         !.log = Append(@,
                            [trackId |-> obj_id, dwellSeconds |-> dwell,
                             at |-> now, frames |-> st.frame_counts[obj_id],
                             cloud |-> rep.url # None])]
    IN  IF rep.url # None
        THEN [s3 EXCEPT !.urls = @ \cup {obj_id}]
        ELSE [s3 EXCEPT !.queue = report_detection(@, obj_id, now, dwell)]

TrackerState ==
    [frame_counts |-> id_frame_counts, first_seen |-> id_first_seen,
     counted |-> counted_ids, saved |-> saved_ids, urls |-> id_cloud_urls,
     daily |-> daily_count, queue |-> pending_queue,
     enabled |-> cloud_upload_enabled, failures |-> cloud_upload_failures,
     posts |-> image_posts, log |-> hist.log]

\* the main loop processes the frames of the next visitor up to the call of
\* report_detection_with_image in the frame that counts the track
VisitArrives ==
    /\ m_pc = "loop"
    /\ next_track <= MaxQueued
    /\ rep_running
    /\ LET before == Visit(TrackerState, next_track, clock,
                           frames_to_count - 1, "exception")
           res == BeginCount(before, next_track,
                             clock + frames_to_count - 1)
       IN  /\ clock' = clock + frames_to_count - 1
           /\ id_frame_counts' = res.frame_counts
           /\ id_first_seen' = res.first_seen
           /\ counted_ids' = res.counted
           /\ saved_ids' = res.saved
           /\ daily_count' = res.daily
    /\ m_pc' = "posting"
    /\ UNCHANGED <<id_cloud_urls, pending_queue, cloud_upload_enabled,
                   cloud_upload_failures, image_posts, hist>>
    /\ UNCHANGED <<vr, cap, sc, open_writers, files, video_uploads, starts,
                   st_pc, stopping, h_hist, should_stop, m_hist>>
    /\ UNCHANGED <<frameVars, streamVars, reporterVars, threadVars,
                   serverVars, loopVars>>

\* requests.post of report_detection_with_image returns (after at most its
\* timeout of 15 s) and process_detections goes on to its end
ImagePostReturns ==
    /\ m_pc = "posting"
    /\ \E outcome \in PostOutcomes :
        LET res == FinishCount(TrackerState, next_track, clock, outcome)
        IN  /\ id_cloud_urls' = res.urls
            /\ pending_queue' = res.queue
            /\ cloud_upload_enabled' = res.enabled
            /\ cloud_upload_failures' = res.failures
            /\ image_posts' = res.posts
            /\ hist' = [hist EXCEPT !.log = res.log]
    /\ clock' = clock + 1
    /\ next_track' = next_track + 1
    /\ m_pc' = "loop"
    /\ UNCHANGED <<id_frame_counts, id_first_seen, counted_ids, saved_ids,
                   daily_count>>
    /\ UNCHANGED <<rep_running, batch, since_upload, u_pc, batch_posts,
                   last_response, held, flushed>>
    /\ UNCHANGED <<vr, cap, sc, open_writers, files, video_uploads, starts,
                   st_pc, stopping, h_hist, should_stop, m_hist>>
    /\ UNCHANGED <<frameVars, streamVars, threadVars,
                   serverVars, loopVars>>

\* C23: while the image upload of a counted track has not returned, the
\* main loop can still process frames.
C23_UploadNeverStallsCounting ==
    (m_pc = "posting" /\ cloud_upload_enabled) => ENABLED VisitArrives

\* C22: when the reporter has stopped and its worker has ended, no event
\* is left in the pending queue or in the worker's batch without a delivery
\* attempt: if no batch POST was ever made, both are empty.
C22_StopFlushesQueue ==
    (~rep_running /\ u_pc = "exit" /\ batch_posts = 0)
        => (batch = <<>> /\ pending_queue = <<>>)

\* C26: a counted visit enqueues a path-only event exactly when the backend
\* did not accept its image: after an image POST answered with 201 (the
\* failure counter is reset) the pending queue is unchanged, and in every
\* other case one event is enqueued.
C26_ImageOrEventNotBoth ==
    [][next_track' # next_track =>
        ((/\ Len(image_posts') = Len(image_posts) + 1
          /\ cloud_upload_failures' = 0)
            <=> pending_queue' = pending_queue)]_vars

\* C36: cloud_upload_enabled is true exactly while cloud_upload_failures is
\* below max_cloud_failures; an image POST either resets the counter to 0
\* (a 201 answer) or adds one to it, so the upload is disabled only by the
\* last of max_cloud_failures failures in a row, and once disabled it is
\* never enabled again
C36_EnabledWhileFewFailures ==
    /\ [](cloud_upload_enabled
            <=> cloud_upload_failures < max_cloud_failures)
    /\ [][Len(image_posts') > Len(image_posts) =>
            \/ cloud_upload_failures' = 0
            \/ cloud_upload_failures' = cloud_upload_failures + 1]_vars
    /\ [][id_cloud_urls' # id_cloud_urls => cloud_upload_failures' = 0]_vars
    /\ [][cloud_upload_enabled' # cloud_upload_enabled =>
            /\ ~cloud_upload_enabled'
            /\ cloud_upload_failures = max_cloud_failures - 1
            /\ cloud_upload_failures' = max_cloud_failures]_vars

\* an image was uploaded after an earlier failure, and the upload was then
\* disabled by max_cloud_failures failures in a row
C36_Witness ==
    /\ ~cloud_upload_enabled
    /\ id_cloud_urls # {}
    /\ Len(image_posts) > max_cloud_failures + 1
    /\ image_posts[1].personTrackId \notin id_cloud_urls

NextVisits == VisitOnline
NextWorker ==
    \/ VisitFew
    \/ WorkerGet
    \/ WorkerCheck
    \/ ReporterStop
NextStall ==
    \/ VisitArrives
    \/ ImagePostReturns
    \/ WorkerGet
    \/ WorkerCheck
NextBatching ==
    \/ VisitOffline
    \/ WorkerGet
    \/ WorkerCheckAccepted
    \/ ReporterStop

(* ========================== VideoRecorder ============================= *)
SessionIds == {"A", "B"}
\* who calls stop_and_upload: the HTTP control thread, and the main thread
\* (from signal_handler and from the finally block of main)
Callers == {"http", "main"}
NoPath == [session |-> "none", kind |-> "none", ts |-> 0]
\* lines 1267-1283: video_dir / "<kind>_<timestamp>.mp4", video_dir ending
\* in the session id
PathOf(sid, kind, ts) == [session |-> sid, kind |-> kind, ts |-> ts]
\* sizes a recording can have, around the sanity threshold
FileSizes == {SanityThreshold, SanityThreshold + 1}
GrowTo(size) == {n \in FileSizes : n >= size}

\* what the config of a POST /recording/start may carry
RequestConfigs == {"none", "no_webcam", "no_screen", "tuned"}
\* do_POST lines 289-305: update the recording config from the request
ApplyConfig(r, req) ==
    CASE req = "no_webcam" -> [r EXCEPT !.record_webcam = FALSE]
      [] req = "no_screen" -> [r EXCEPT !.record_screen = FALSE]
      [] req = "tuned" -> [r EXCEPT !.webcam_fps = 15, !.rotation = 90]
      [] OTHER -> r

\* VideoRecorder.start_recording, for the recorder fields
start_recording(r, sid, ts) ==
    IF r.is_recording THEN r
    ELSE [r EXCEPT
            !.session_id = sid,
            !.webcam_frame_count = 0,
            !.screen_frame_count = 0,
            !.webcam_path = IF r.record_webcam
                            THEN PathOf(sid, "webcam", ts) ELSE NoPath,
            !.screen_path = IF r.record_screen
                            THEN PathOf(sid, "screen", ts) ELSE NoPath,
            !.is_recording = TRUE,
            !.screen_stop_event = IF r.record_screen THEN FALSE ELSE @,
            !.screen_thread = IF r.record_screen THEN ts ELSE @]

\* variant: stop_and_upload without its guard
CanStop_Always(recording) == TRUE

\* line 1490: stop_and_upload returns at once unless recording
CanStop(recording) == recording

\* variant: any file that exists is uploaded
WorthUploading_AnySize(fs, path) ==
    path # NoPath /\ path \in DOMAIN fs

\* lines 1519-1521 and 1529-1531: the file exists and is larger than 1 KB
WorthUploading(fs, path) ==
    path # NoPath /\ path \in DOMAIN fs /\ fs[path] > SanityThreshold

\* _upload_video: one POST with sessionId, type and the file
upload_video(uploads, fs, path, video_type, sid) ==
    IF path \notin DOMAIN fs THEN uploads
    ELSE Append(uploads, [sessionId |-> sid, type |-> video_type,
                          path |-> path])

\* variant: the finally block does not stop the recording
FinallyStops_Never(recording) == FALSE

\* main lines 1806-1807: if video_recorder.is_recording: stop_and_upload()
FinallyStops(recording) == recording

RecorderInit ==
    /\ vr = [is_recording |-> FALSE, session_id |-> None,
             webcam_path |-> NoPath, screen_path |-> NoPath,
             webcam_frame_count |-> 0, screen_frame_count |-> 0,
             webcam_writer |-> NoPath, screen_thread |-> 0,
             screen_stop_event |-> FALSE, capture_running |-> TRUE,
             record_webcam |-> TRUE, record_screen |-> TRUE,
             webcam_fps |-> 30, rotation |-> 0]
    /\ cap = [writer |-> NoPath, initialized |-> FALSE]
    /\ sc = [n \in 1..MaxSessions |-> [pc |-> "none", out |-> NoPath]]
    /\ open_writers = {}
    /\ files = EmptyDict
    /\ video_uploads = <<>>
    /\ starts = 0
    /\ st_pc = [c \in Callers |-> "idle"]
    /\ stopping = [c \in Callers |-> 0]
    /\ h_hist = "none"
    /\ m_pc = "loop"
    /\ should_stop = FALSE
    /\ m_hist = [cause |-> "none", recording |-> 0, closed |-> {}]

\* main lines 1708-1710: the screen publisher is constructed, which starts
\* its connection thread with running = True
\* and the state of the recorder's threads once start_capture has
\* delivered its first frame (main lines 1677-1687)
ThreadsInit ==
    /\ screen_running = TRUE
    /\ c_pc = "top"
    /\ writer_lock = None
    /\ frame_lock = None

(* -------------------------- the control server ------------------------ *)
\* start_http_server, lines 396-408: one HTTPServer whose serve_forever
\* runs in one daemon thread; the thread accepts a connection, runs the
\* handler to its end, and only then accepts the next one.  Connections
\* made meanwhile wait in the listen queue, in the order they were made.
\* sent and served count the recording commands that had to wait.
ServerInit ==
    srv = [pc |-> "accept", waiting |-> <<>>, sent |-> 0, served |-> 0,
           frames |-> 0]

RecordingCommands == {"/recording/start", "/recording/stop",
                      "/recording/status"}

\* serve_forever handles one request at a time
CanAccept(pc) == pc = "accept"

\* the server thread takes its next connection, which carries request req:
\* the oldest waiting one, or one made right now when none is waiting
Dispatch(req) ==
    /\ CanAccept(srv.pc)
    /\ IF srv.waiting = <<>> THEN TRUE ELSE Head(srv.waiting) = req
    /\ srv' = IF srv.waiting = <<>> THEN srv
              ELSE [srv EXCEPT !.waiting = Tail(@), !.served = @ + 1]

\* a client sends a recording command while the server thread is busy or
\* other commands wait: its connection is queued
CommandSent(cmd) ==
    /\ m_pc = "loop"
    /\ srv.sent < MaxCommands
    /\ Len(srv.waiting) < MaxWaiting
    /\ ~CanAccept(srv.pc) \/ st_pc["http"] # "idle" \/ srv.waiting # <<>>
    /\ (cmd = "/recording/start") =>
          starts + Cardinality({k \in DOMAIN srv.waiting :
                                  srv.waiting[k] = cmd}) < MaxSessions
    /\ srv' = [srv EXCEPT !.waiting = Append(@, cmd), !.sent = @ + 1]
    /\ UNCHANGED <<trackerVars, frameVars, streamVars, reporterVars,
                   recorderVars, threadVars, loopVars>>

\* do_GET /stream, lines 149-152 and 162-168: a live-view client attaches
\* and send_mjpeg_stream sends its headers
GetStream ==
    /\ st_pc["http"] = "idle"
    /\ m_pc = "loop"
    /\ CanAccept(srv.pc)
    /\ srv.waiting = <<>>
    /\ srv' = [srv EXCEPT !.pc = "stream"]
    /\ UNCHANGED <<trackerVars, frameVars, streamVars, reporterVars,
                   recorderVars, threadVars, loopVars>>

\* send_mjpeg_stream lines 170-183: one round of its while True loop
StreamFrame ==
    /\ srv.pc = "stream"
    /\ m_pc = "loop"
    /\ srv' = [srv EXCEPT !.frames = IF @ < MaxStreamed THEN @ + 1 ELSE @]
    /\ UNCHANGED <<trackerVars, frameVars, streamVars, reporterVars,
                   recorderVars, threadVars, loopVars>>

\* lines 184-185: the client has gone, a write raises BrokenPipeError or
\* ConnectionResetError and the handler returns
StreamClientLeaves ==
    /\ srv.pc = "stream"
    /\ m_pc = "loop"
    /\ srv' = [srv EXCEPT !.pc = "accept"]
    /\ UNCHANGED <<trackerVars, frameVars, streamVars, reporterVars,
                   recorderVars, threadVars, loopVars>>

\* do_POST /recording/status, lines 356-372: the recorder's fields are read
PostRecordingStatus ==
    /\ st_pc["http"] = "idle"
    /\ m_pc = "loop"
    /\ Dispatch("/recording/status")
    /\ UNCHANGED <<trackerVars, frameVars, streamVars, reporterVars,
                   recorderVars, threadVars, loopVars>>

\* do_POST /recording/start, lines 276-327, handled by the single-threaded
\* control server while the main loop runs; reqs are the configs the
\* clients send
PostRecordingStart(reqs) ==
    /\ st_pc["http"] = "idle"
    /\ m_pc = "loop"
    /\ \E sid \in SessionIds, req \in reqs :
        LET configured == ApplyConfig(vr, req)
            ts == starts + 1
        IN  /\ ~vr.is_recording => starts < MaxSessions
            /\ vr' = start_recording(configured, sid, ts)
            /\ starts' = IF vr.is_recording THEN starts ELSE ts
            /\ sc' = IF ~vr.is_recording /\ configured.record_screen
                     THEN [sc EXCEPT ![ts] = [pc |-> "run", out |-> NoPath]]
                     ELSE sc
            /\ h_hist' = IF ~vr.is_recording THEN "start"
                          ELSE IF h_hist = "start_active"
                               THEN "start_active_again"
                               ELSE "start_active"
    /\ Dispatch("/recording/start")
    /\ UNCHANGED <<cap, open_writers, files, video_uploads, st_pc, stopping,
                   m_pc, should_stop, m_hist>>
    /\ UNCHANGED <<trackerVars, frameVars, streamVars, reporterVars,
                   threadVars, loopVars>>

PostStartConfigured == PostRecordingStart(RequestConfigs)
\* clients that send no config
PostStartPlain == PostRecordingStart({"none"})

\* stop_and_upload lines 1490-1497, called by c: the guard, the flag, the
\* stop event
StopAndUploadBegin(c) ==
    IF CanStop(vr.is_recording)
    THEN /\ vr' = [vr EXCEPT !.is_recording = FALSE,
                            !.screen_stop_event = TRUE]
         /\ st_pc' = [st_pc EXCEPT ![c] = "closing"]
         /\ stopping' = [stopping EXCEPT ![c] = starts]
    ELSE UNCHANGED <<vr, st_pc, stopping>>

\* do_POST /recording/stop, lines 330-346
PostRecordingStop ==
    /\ st_pc["http"] = "idle"
    /\ m_pc = "loop"
    /\ StopAndUploadBegin("http")
    /\ Dispatch("/recording/stop")
    /\ h_hist' = IF vr.is_recording THEN "stop"
                  ELSE IF h_hist = "stop_idle" THEN "stop_idle_again"
                       ELSE "stop_idle"
    /\ UNCHANGED <<cap, sc, open_writers, files, video_uploads, starts,
                   m_pc, should_stop, m_hist>>
    /\ UNCHANGED <<trackerVars, frameVars, streamVars, reporterVars,
                   threadVars, loopVars>>

\* the control thread works only while the main thread is in its loop
Proceeds(c) == c = "main" \/ m_pc = "loop"

\* stop_and_upload lines 1499-1514: the bounded join of the screen thread,
\* the pause, the forced release of the webcam writer
StopRelease(c) ==
    /\ st_pc[c] = "closing"
    /\ Proceeds(c)
    /\ open_writers' = open_writers \ {vr.webcam_writer}
    /\ vr' = [vr EXCEPT !.webcam_writer = NoPath]
    /\ st_pc' = [st_pc EXCEPT ![c] = "up_webcam"]
    /\ UNCHANGED <<cap, sc, files, video_uploads, starts, stopping, h_hist,
                   m_pc, should_stop, m_hist>>
    /\ UNCHANGED <<trackerVars, frameVars, streamVars, reporterVars,
                   threadVars,
                   serverVars, loopVars>>

\* stop_and_upload lines 1519-1527
StopUploadWebcam(c) ==
    /\ st_pc[c] = "up_webcam"
    /\ Proceeds(c)
    /\ video_uploads' = IF WorthUploading(files, vr.webcam_path)
                        THEN upload_video(video_uploads, files,
                                          vr.webcam_path, "webcam",
                                          vr.session_id)
                        ELSE video_uploads
    /\ st_pc' = [st_pc EXCEPT ![c] = "up_screen"]
    /\ UNCHANGED <<vr, cap, sc, open_writers, files, starts, stopping,
                   h_hist, m_pc, should_stop, m_hist>>
    /\ UNCHANGED <<trackerVars, frameVars, streamVars, reporterVars,
                   threadVars,
                   serverVars, loopVars>>

\* stop_and_upload lines 1529-1539
StopUploadScreen(c) ==
    /\ st_pc[c] = "up_screen"
    /\ Proceeds(c)
    /\ video_uploads' = IF WorthUploading(files, vr.screen_path)
                        THEN upload_video(video_uploads, files,
                                          vr.screen_path, "screen",
                                          vr.session_id)
                        ELSE video_uploads
    /\ st_pc' = [st_pc EXCEPT ![c] = "idle"]
    /\ UNCHANGED <<vr, cap, sc, open_writers, files, starts, stopping,
                   h_hist, m_pc, should_stop, m_hist>>
    /\ UNCHANGED <<trackerVars, frameVars, streamVars, reporterVars,
                   threadVars,
                   serverVars, loopVars>>

\* _webcam_capture_thread lines 1357-1412: one iteration that read a frame
CaptureFrame ==
    /\ vr.capture_running
    /\ m_pc # "exit"
    /\ IF vr.is_recording /\ vr.record_webcam
       THEN \E opened \in BOOLEAN :
            LET init == ~cap.initialized /\ vr.webcam_path # NoPath
                ok == init /\ opened
                cap1 == IF ok THEN [writer |-> vr.webcam_path,
                                    initialized |-> TRUE]
                        ELSE IF init THEN [cap EXCEPT !.writer = NoPath]
                        ELSE cap
                open1 == IF ok THEN open_writers \cup {vr.webcam_path}
                         ELSE open_writers
                files1 == IF ok THEN DictPut(files, vr.webcam_path, SanityThreshold)
                          ELSE files
                writes == cap1.writer # NoPath /\ cap1.writer \in open1
            IN  /\ init \/ opened
                /\ init \/ writes
                /\ cap' = cap1
                /\ open_writers' = open1
                /\ IF writes
                   THEN /\ vr.webcam_frame_count < MaxRecFrames
                        /\ \E size \in GrowTo(files1[cap1.writer]) :
                              files' = [files1 EXCEPT ![cap1.writer] = size]
                        /\ vr' = [vr EXCEPT
                              !.webcam_frame_count = @ + 1,
                              !.webcam_writer = IF ok THEN cap1.writer ELSE @]
                   ELSE /\ files' = files1
                        /\ vr' = vr
       ELSE /\ cap.initialized /\ ~vr.is_recording
            /\ open_writers' = open_writers \ {cap.writer}
            /\ cap' = [writer |-> NoPath, initialized |-> FALSE]
            /\ vr' = [vr EXCEPT !.webcam_writer = NoPath]
            /\ UNCHANGED files
    /\ UNCHANGED <<sc, video_uploads, starts, st_pc, stopping, h_hist, m_pc,
                   should_stop, m_hist>>
    /\ UNCHANGED <<trackerVars, frameVars, streamVars, reporterVars,
                   threadVars,
                   serverVars, loopVars>>

\* _record_screen_thread lines 1438-1485, the thread of start number n:
\* the loop condition and one captured frame, or the end of the thread
ScreenFrame(n) ==
    /\ sc[n].pc = "run"
    /\ m_pc # "exit"
    /\ IF ~(vr.is_recording /\ ~vr.screen_stop_event)
       THEN /\ sc' = [sc EXCEPT ![n] = [pc |-> "ended", out |-> NoPath]]
            /\ open_writers' = open_writers \ {sc[n].out}
            /\ UNCHANGED <<vr, files>>
       ELSE \E opened \in BOOLEAN :
            LET first == sc[n].out = NoPath
                ok == opened /\ vr.screen_path # NoPath
                out1 == IF first THEN vr.screen_path ELSE sc[n].out
            IN  /\ first \/ opened
                /\ IF first /\ ~ok
                   THEN /\ sc' = [sc EXCEPT ![n].pc = "ended"]
                        /\ UNCHANGED <<vr, files, open_writers>>
                   ELSE /\ vr.screen_frame_count < MaxRecFrames
                        /\ sc' = [sc EXCEPT ![n].out = out1]
                        /\ open_writers' = open_writers \cup {out1}
                        /\ \E size \in GrowTo(IF first THEN SanityThreshold
                                              ELSE files[out1]) :
                              files' = DictPut(files, out1, size)
                        /\ vr' = [vr EXCEPT !.screen_frame_count = @ + 1]
    /\ UNCHANGED <<cap, video_uploads, starts, st_pc, stopping, h_hist, m_pc,
                   should_stop, m_hist>>
    /\ UNCHANGED <<trackerVars, frameVars, streamVars, reporterVars,
                   threadVars,
                   serverVars, loopVars>>

(* ------------------------ shutdown of the process --------------------- *)
\* signal_handler, lines 1607-1613, run by the main thread inside its loop
Signals == {"SIGTERM", "SIGINT"}
Signal ==
    /\ m_pc = "loop"
    /\ ~should_stop
    /\ st_pc["http"] = "idle"
    /\ \E sig \in Signals :
          m_hist' = [cause |-> sig,
                     recording |-> IF vr.is_recording THEN starts ELSE 0,
                     closed |-> IF CanStop(vr.is_recording) THEN {starts}
                                ELSE {}]
    /\ should_stop' = TRUE
    /\ StopAndUploadBegin("main")
    /\ m_pc' = "handler"
    /\ UNCHANGED <<cap, sc, open_writers, files, video_uploads, starts,
                   h_hist>>
    /\ UNCHANGED <<trackerVars, frameVars, streamVars, reporterVars,
                   threadVars,
                   serverVars, loopVars>>

\* stop_and_upload has returned to signal_handler, which returns to the loop
HandlerReturn ==
    /\ m_pc = "handler"
    /\ st_pc["main"] = "idle"
    /\ m_pc' = "loop"
    /\ UNCHANGED <<vr, cap, sc, open_writers, files, video_uploads, starts,
                   st_pc, stopping, h_hist, should_stop, m_hist>>
    /\ UNCHANGED <<trackerVars, frameVars, streamVars, reporterVars,
                   threadVars,
                   serverVars, loopVars>>

\* main lines 1734, 1794-1798: the loop ends on _should_stop, on the quit
\* key or on KeyboardInterrupt
LoopExits == {"should_stop", "quit", "KeyboardInterrupt"}
LoopExit ==
    /\ m_pc = "loop"
    /\ st_pc["http"] = "idle"
    /\ \E cause \in LoopExits :
        /\ (cause = "should_stop") <=> should_stop
        /\ m_hist' = IF should_stop THEN m_hist
                     ELSE [cause |-> cause,
                           recording |-> IF vr.is_recording THEN starts
                                         ELSE 0,
                           closed |-> {}]
    /\ m_pc' = "finally"
    /\ UNCHANGED <<vr, cap, sc, open_writers, files, video_uploads, starts,
                   st_pc, stopping, h_hist, should_stop>>
    /\ UNCHANGED <<trackerVars, frameVars, streamVars, reporterVars,
                   threadVars,
                   serverVars, loopVars>>

\* main lines 1805-1807: stop and upload the recording if one is active
FinallyStop ==
    /\ m_pc = "finally"
    /\ IF FinallyStops(vr.is_recording)
       THEN /\ StopAndUploadBegin("main")
            /\ m_hist' = [m_hist EXCEPT !.closed =
                            IF CanStop(vr.is_recording) THEN @ \cup {starts}
                            ELSE @]
            /\ m_pc' = "finally_stop"
       ELSE /\ m_pc' = "stop_capture"
            /\ UNCHANGED <<vr, st_pc, stopping, m_hist>>
    /\ UNCHANGED <<cap, sc, open_writers, files, video_uploads, starts,
                   h_hist, should_stop>>
    /\ UNCHANGED <<trackerVars, frameVars, streamVars, reporterVars,
                   threadVars,
                   serverVars, loopVars>>

FinallyStopped ==
    /\ m_pc = "finally_stop"
    /\ st_pc["main"] = "idle"
    /\ m_pc' = "stop_capture"
    /\ UNCHANGED <<vr, cap, sc, open_writers, files, video_uploads, starts,
                   st_pc, stopping, h_hist, should_stop, m_hist>>
    /\ UNCHANGED <<trackerVars, frameVars, streamVars, reporterVars,
                   threadVars,
                   serverVars, loopVars>>

\* main lines 1810-1812: capture_running = False and a bounded join
FinallyStopCapture ==
    /\ m_pc = "stop_capture"
    /\ vr' = [vr EXCEPT !.capture_running = FALSE]
    /\ m_pc' = "stop_ws"
    /\ UNCHANGED <<cap, sc, open_writers, files, video_uploads, starts,
                   st_pc, stopping, h_hist, should_stop, m_hist>>
    /\ UNCHANGED <<trackerVars, frameVars, streamVars, reporterVars,
                   threadVars,
                   serverVars, loopVars>>

\* main lines 1815-1816: ws_streamer.stop()
FinallyStopStreamer ==
    /\ m_pc = "stop_ws"
    /\ running' = FALSE
    /\ connected' = FALSE
    /\ streaming_active' = FALSE
    /\ ws' = IF ws = "none" THEN "none" ELSE "closed"
    /\ stop_pc' = "done"
    /\ m_pc' = "stop_reporter"
    /\ UNCHANGED <<p_kind, authenticated, consecutive_failures, frames_sent,
                   since_last, reconnect_wait, p_pc, wire, p_hist>>
    /\ UNCHANGED <<vr, cap, sc, open_writers, files, video_uploads, starts,
                   st_pc, stopping, h_hist, should_stop, m_hist>>
    /\ UNCHANGED <<trackerVars, frameVars, reporterVars, threadVars,
                   serverVars, loopVars>>

\* main lines 1818-1820: reporter.stop(), then the process ends
FinallyStopReporter ==
    /\ m_pc = "stop_reporter"
    /\ rep_running' = FALSE
    /\ m_pc' = "exit"
    /\ UNCHANGED <<batch, since_upload, u_pc, next_track, batch_posts,
                   last_response, held, flushed>>
    /\ UNCHANGED <<vr, cap, sc, open_writers, files, video_uploads, starts,
                   st_pc, stopping, h_hist, should_stop, m_hist>>
    /\ UNCHANGED <<trackerVars, frameVars, streamVars, threadVars,
                   serverVars, loopVars>>

\* the fields of the recorder that make up the active session and its
\* configuration
SessionOf(r) ==
    <<r.is_recording, r.session_id, r.webcam_path, r.screen_path,
      r.webcam_frame_count, r.screen_frame_count, r.screen_thread,
      r.record_webcam, r.record_screen, r.webcam_fps, r.rotation>>
Paths(uploads) == {uploads[i].path : i \in 1..Len(uploads)}

\* C17: a stop command received while nothing is recording changes nothing
\* in the recorder and uploads nothing, and over any sequence of start and
\* stop commands no recorded file is uploaded twice (a second stop after
\* one start does not repeat the close-and-upload work).
C17_StopIdempotent ==
    /\ [](Cardinality(Paths(video_uploads)) = Len(video_uploads))
    /\ [][(h_hist' \in {"stop_idle", "stop_idle_again"} /\ h_hist' # h_hist)
            => UNCHANGED <<vr, cap, sc, open_writers, files, video_uploads,
                           starts, st_pc, stopping>>]_vars
\* one session was started and stopped, both its files were uploaded, and
\* a second stop followed
C17_Witness ==
    /\ h_hist = "stop_idle"
    /\ starts = 1
    /\ Len(video_uploads) = 2
    /\ st_pc["http"] = "idle"

\* C18: a start command received through POST /recording/start while a
\* session is active leaves the session id, the output paths, the frame
\* counters, the screen thread and the recording configuration
\* (record_webcam, record_screen, frame rate, camera transform) unchanged.
C18_StartWhileActiveNoop ==
    [][(h_hist' \in {"start_active", "start_active_again"} /\ h_hist' # h_hist)
        => UNCHANGED <<SessionOf(vr), sc, starts>>]_vars

\* what the stop of session number n must add to the uploads for one file
Expected(uploads, fs, path, video_type, n) ==
    IF path # NoPath /\ path \in DOMAIN fs /\ fs[path] > SanityThreshold
    THEN /\ path.ts = n
         /\ uploads' = Append(uploads, [sessionId |-> path.session,
                                        type |-> video_type, path |-> path])
    ELSE uploads' = uploads

\* C19: on stop, the camera file of the stopped session is uploaded as
\* "webcam" and its screen file as "screen", each with the id of that
\* session, exactly when the file exists and is larger than 1024 bytes;
\* nothing missing or of at most 1024 bytes is ever among the uploads.
C19_UploadOnlyWorthwhile ==
    /\ [](\A i \in 1..Len(video_uploads) :
            LET u == video_uploads[i]
            IN  /\ u.path \in DOMAIN files
                /\ files[u.path] > SanityThreshold
                /\ u.type = u.path.kind
                /\ u.sessionId = u.path.session)
    /\ [][(st_pc["http"] = "up_webcam" /\ st_pc'["http"] = "up_screen")
            => Expected(video_uploads, files, vr.webcam_path, "webcam",
                        stopping["http"])]_vars
    /\ [][(st_pc["http"] = "up_screen" /\ st_pc'["http"] = "idle")
            => Expected(video_uploads, files, vr.screen_path, "screen",
                        stopping["http"])]_vars
\* session A was stopped: its screen file was uploaded, its camera file
\* exists but was too small and was skipped
C19_Witness ==
    /\ h_hist = "stop"
    /\ st_pc["http"] = "idle"
    /\ video_uploads = <<[sessionId |-> "A", type |-> "screen",
                          path |-> PathOf("A", "screen", 1)]>>
    /\ PathOf("A", "webcam", 1) \in DOMAIN files

NextRecorder ==
    \/ PostStartConfigured
    \/ PostRecordingStop
    \/ StopRelease("http")
    \/ StopUploadWebcam("http")
    \/ StopUploadScreen("http")
    \/ CaptureFrame
    \/ \E n \in 1..MaxSessions : ScreenFrame(n)
C21_ShutdownOrder ==
    /\ (m_pc \in {"stop_capture", "stop_ws", "stop_reporter", "exit"})
          => (~vr.is_recording /\ st_pc["main"] = "idle")
    /\ (m_pc \in {"stop_ws", "stop_reporter", "exit"}) => ~vr.capture_running
    /\ (m_pc \in {"stop_reporter", "exit"}) => (~running /\ ~screen_running)
    /\ (m_pc = "exit") => ~rep_running
    /\ (m_pc \in {"finally", "finally_stop", "stop_capture"})
          => (running /\ rep_running)
    /\ (m_pc = "stop_ws") => rep_running

NextShutdown ==
    \/ PostStartPlain
    \/ PostRecordingStop
    \/ \E c \in Callers : StopRelease(c)
    \/ \E c \in Callers : StopUploadWebcam(c)
    \/ \E c \in Callers : StopUploadScreen(c)
    \/ CaptureFrame
    \/ \E n \in 1..MaxSessions : ScreenFrame(n)
    \/ Signal
    \/ HandlerReturn
    \/ LoopExit
    \/ FinallyStop
    \/ FinallyStopped
    \/ FinallyStopCapture
    \/ FinallyStopStreamer
    \/ FinallyStopReporter

(* --------------- the recorder's threads, statement by statement ------- *)
\* variant: a failed read ends the capture loop
AfterFailedRead_GiveUp == "done"

\* lines 1358-1361: a failed read sleeps 0.1 s and continues the loop
AfterFailedRead == "top"

\* variant: the writer is released without regard to the lock
WriterLockFree_NoLock(holder) == TRUE

\* with self.writer_lock: the lock can be taken when nobody holds it
WriterLockFree(holder) == holder = None

\* variant: a join without timeout
JoinReturns_Unbounded(alive, timed_out) == ~alive

\* join(timeout=...): returns when the thread has ended or the time is up
JoinReturns(alive, timed_out) == ~alive \/ timed_out

Bump(n) == IF n < MaxRecFrames THEN n + 1 ELSE n

\* _webcam_capture_thread lines 1357-1361 and 1414-1418: the loop condition
\* and cap.read(); after the loop the thread's writer is released
CapTop ==
    /\ c_pc = "top"
    /\ m_pc # "exit"
    /\ IF ~vr.capture_running
       THEN /\ c_pc' = "done"
            /\ open_writers' = open_writers \ {cap.writer}
       ELSE /\ \E ret \in BOOLEAN :
                  c_pc' = IF ret THEN "publish" ELSE AfterFailedRead
            /\ UNCHANGED open_writers
    /\ UNCHANGED <<screen_running, writer_lock, frame_lock>>
    /\ UNCHANGED <<vr, cap, sc, files, video_uploads, starts, st_pc,
                   stopping, h_hist, m_pc, should_stop, m_hist>>
    /\ UNCHANGED <<trackerVars, frameVars, streamVars, reporterVars,
                   serverVars, loopVars>>

\* lines 1363-1368: transform, then latest_frame is set under frame_lock
CapPublish ==
    /\ c_pc = "publish"
    /\ m_pc # "exit"
    /\ frame_lock = None
    /\ c_pc' = "branch"
    /\ UNCHANGED <<screen_running, writer_lock, frame_lock>>
    /\ UNCHANGED recorderVars
    /\ UNCHANGED <<trackerVars, frameVars, streamVars, reporterVars,
                   serverVars, loopVars>>

\* lines 1371 and 1402: which branch this frame takes, tested without lock
CapBranch ==
    /\ c_pc = "branch"
    /\ m_pc # "exit"
    /\ c_pc' = IF vr.is_recording /\ vr.record_webcam THEN "lock_write"
               ELSE IF cap.initialized /\ ~vr.is_recording THEN "lock_close"
               ELSE "top"
    /\ UNCHANGED <<screen_running, writer_lock, frame_lock>>
    /\ UNCHANGED recorderVars
    /\ UNCHANGED <<trackerVars, frameVars, streamVars, reporterVars,
                   serverVars, loopVars>>

\* lines 1372-1397: writer_lock is taken, the writer is opened on the first
\* frame, and the frame is handed to the writer if that is open
CapWriteBegin ==
    /\ c_pc = "lock_write"
    /\ m_pc # "exit"
    /\ WriterLockFree(writer_lock)
    /\ \E opened \in BOOLEAN :
        LET init == ~cap.initialized /\ vr.webcam_path # NoPath
            ok == init /\ opened
            cap1 == IF ok THEN [writer |-> vr.webcam_path,
                                initialized |-> TRUE]
                    ELSE IF init THEN [cap EXCEPT !.writer = NoPath]
                    ELSE cap
            open1 == IF ok THEN open_writers \cup {vr.webcam_path}
                     ELSE open_writers
            writes == cap1.writer # NoPath /\ cap1.writer \in open1
        IN  /\ init \/ opened
            /\ cap' = cap1
            /\ open_writers' = open1
            /\ files' = IF ok
                        THEN DictPut(files, vr.webcam_path, SanityThreshold)
                        ELSE files
            /\ vr' = IF ok THEN [vr EXCEPT !.webcam_writer = cap1.writer]
                     ELSE vr
            /\ writer_lock' = IF writes THEN "capture" ELSE writer_lock
            /\ c_pc' = IF writes THEN "writing" ELSE "top"
    /\ UNCHANGED <<screen_running, frame_lock>>
    /\ UNCHANGED <<sc, video_uploads, starts, st_pc, stopping, h_hist, m_pc,
                   should_stop, m_hist>>
    /\ UNCHANGED <<trackerVars, frameVars, streamVars, reporterVars,
                   serverVars, loopVars>>

\* lines 1396-1400: writer.write returns, the frame is counted and the lock
\* is given back
CapWriteEnd ==
    /\ c_pc = "writing"
    /\ m_pc # "exit"
    /\ \E size \in GrowTo(files[cap.writer]) :
          files' = [files EXCEPT ![cap.writer] = size]
    /\ vr' = [vr EXCEPT !.webcam_frame_count = Bump(@)]
    /\ writer_lock' = None
    /\ c_pc' = "top"
    /\ UNCHANGED <<screen_running, frame_lock>>
    /\ UNCHANGED <<cap, sc, open_writers, video_uploads, starts, st_pc,
                   stopping, h_hist, m_pc, should_stop, m_hist>>
    /\ UNCHANGED <<trackerVars, frameVars, streamVars, reporterVars,
                   serverVars, loopVars>>

\* lines 1402-1410: the recording has stopped, the thread closes its writer
\* under writer_lock
CapClose ==
    /\ c_pc = "lock_close"
    /\ m_pc # "exit"
    /\ WriterLockFree(writer_lock)
    /\ open_writers' = open_writers \ {cap.writer}
    /\ cap' = [writer |-> NoPath, initialized |-> FALSE]
    /\ vr' = [vr EXCEPT !.webcam_writer = NoPath]
    /\ c_pc' = "top"
    /\ UNCHANGED <<screen_running, writer_lock, frame_lock>>
    /\ UNCHANGED <<sc, files, video_uploads, starts, st_pc, stopping, h_hist,
                   m_pc, should_stop, m_hist>>
    /\ UNCHANGED <<trackerVars, frameVars, streamVars, reporterVars,
                   serverVars, loopVars>>

\* get_latest_frame, lines 1255-1258, called by the main loop: the copy is
\* made under frame_lock
GetLatestFrame ==
    /\ m_pc = "loop"
    /\ \/ frame_lock = None /\ frame_lock' = "main"
       \/ frame_lock = "main" /\ frame_lock' = None
    /\ UNCHANGED <<screen_running, c_pc, writer_lock>>
    /\ UNCHANGED recorderVars
    /\ UNCHANGED <<trackerVars, frameVars, streamVars, reporterVars,
                   serverVars, loopVars>>

\* do_POST /recording/stop line 335: the control thread calls
\* stop_and_upload
PostStopCall ==
    /\ st_pc["http"] = "idle"
    /\ m_pc # "exit"
    /\ st_pc' = [st_pc EXCEPT !["http"] = "check"]
    /\ Dispatch("/recording/stop")
    /\ UNCHANGED threadVars
    /\ UNCHANGED <<vr, cap, sc, open_writers, files, video_uploads, starts,
                   stopping, h_hist, m_pc, should_stop, m_hist>>
    /\ UNCHANGED <<trackerVars, frameVars, streamVars, reporterVars,
                   loopVars>>

\* caller c is alive: the control thread is a daemon thread
Alive(c) == m_pc # "exit"

\* stop_and_upload lines 1490-1491: the test of is_recording
SU_Check(c) ==
    /\ st_pc[c] = "check"
    /\ Alive(c)
    /\ st_pc' = [st_pc EXCEPT ![c] = IF CanStop(vr.is_recording)
                                     THEN "passed" ELSE "idle"]
    /\ UNCHANGED threadVars
    /\ UNCHANGED <<vr, cap, sc, open_writers, files, video_uploads, starts,
                   stopping, h_hist, m_pc, should_stop, m_hist>>
    /\ UNCHANGED <<trackerVars, frameVars, streamVars, reporterVars,
                   serverVars, loopVars>>

\* lines 1493-1497: is_recording = False and screen_stop_event.set()
SU_Flag(c) ==
    /\ st_pc[c] = "passed"
    /\ Alive(c)
    /\ vr' = [vr EXCEPT !.is_recording = FALSE, !.screen_stop_event = TRUE]
    /\ stopping' = [stopping EXCEPT ![c] = starts]
    /\ st_pc' = [st_pc EXCEPT ![c] = "join"]
    /\ UNCHANGED threadVars
    /\ UNCHANGED <<cap, sc, open_writers, files, video_uploads, starts,
                   h_hist, m_pc, should_stop, m_hist>>
    /\ UNCHANGED <<trackerVars, frameVars, streamVars, reporterVars,
                   serverVars, loopVars>>

\* lines 1499-1505: the join of the screen thread with its timeout of 5 s,
\* then the pause of 1 s
SU_Join(c) ==
    /\ st_pc[c] = "join"
    /\ Alive(c)
    /\ \E timed_out \in BOOLEAN :
          JoinReturns(/\ vr.screen_thread # 0
                      /\ sc[vr.screen_thread].pc = "run", timed_out)
    /\ st_pc' = [st_pc EXCEPT ![c] = "acquire"]
    /\ UNCHANGED threadVars
    /\ UNCHANGED <<vr, cap, sc, open_writers, files, video_uploads, starts,
                   stopping, h_hist, m_pc, should_stop, m_hist>>
    /\ UNCHANGED <<trackerVars, frameVars, streamVars, reporterVars,
                   serverVars, loopVars>>

\* line 1508: with self.writer_lock
SU_Acquire(c) ==
    /\ st_pc[c] = "acquire"
    /\ Alive(c)
    /\ WriterLockFree(writer_lock)
    /\ writer_lock' = c
    /\ st_pc' = [st_pc EXCEPT ![c] = "release"]
    /\ UNCHANGED <<screen_running, c_pc, frame_lock>>
    /\ UNCHANGED <<vr, cap, sc, open_writers, files, video_uploads, starts,
                   stopping, h_hist, m_pc, should_stop, m_hist>>
    /\ UNCHANGED <<trackerVars, frameVars, streamVars, reporterVars,
                   serverVars, loopVars>>

\* lines 1509-1514: the writer is released if the capture thread has not
\* done it, the lock is given back, and the files get 0.5 s to settle
SU_Release(c) ==
    /\ st_pc[c] = "release"
    /\ Alive(c)
    /\ open_writers' = open_writers \ {vr.webcam_writer}
    /\ vr' = [vr EXCEPT !.webcam_writer = NoPath]
    /\ writer_lock' = None
    /\ st_pc' = [st_pc EXCEPT ![c] = "up_webcam"]
    /\ UNCHANGED <<screen_running, c_pc, frame_lock>>
    /\ UNCHANGED <<cap, sc, files, video_uploads, starts, stopping, h_hist,
                   m_pc, should_stop, m_hist>>
    /\ UNCHANGED <<trackerVars, frameVars, streamVars, reporterVars,
                   serverVars, loopVars>>

\* lines 1518-1527
SU_UploadWebcam(c) ==
    /\ st_pc[c] = "up_webcam"
    /\ Alive(c)
    /\ video_uploads' = IF WorthUploading(files, vr.webcam_path)
                        THEN upload_video(video_uploads, files,
                                          vr.webcam_path, "webcam",
                                          vr.session_id)
                        ELSE video_uploads
    /\ st_pc' = [st_pc EXCEPT ![c] = "up_screen"]
    /\ UNCHANGED threadVars
    /\ UNCHANGED <<vr, cap, sc, open_writers, files, starts, stopping,
                   h_hist, m_pc, should_stop, m_hist>>
    /\ UNCHANGED <<trackerVars, frameVars, streamVars, reporterVars,
                   serverVars, loopVars>>

\* lines 1529-1539
SU_UploadScreen(c) ==
    /\ st_pc[c] = "up_screen"
    /\ Alive(c)
    /\ video_uploads' = IF WorthUploading(files, vr.screen_path)
                        THEN upload_video(video_uploads, files,
                                          vr.screen_path, "screen",
                                          vr.session_id)
                        ELSE video_uploads
    /\ st_pc' = [st_pc EXCEPT ![c] = "idle"]
    /\ UNCHANGED threadVars
    /\ UNCHANGED <<vr, cap, sc, open_writers, files, starts, stopping,
                   h_hist, m_pc, should_stop, m_hist>>
    /\ UNCHANGED <<trackerVars, frameVars, streamVars, reporterVars,
                   serverVars, loopVars>>

\* signal_handler lines 1607-1613, run by the main thread inside its loop
\* while the other threads go on
SignalArrives ==
    /\ m_pc = "loop"
    /\ ~should_stop
    /\ frame_lock # "main"
    /\ should_stop' = TRUE
    /\ st_pc' = [st_pc EXCEPT !["main"] = "check"]
    /\ m_pc' = "handler"
    /\ UNCHANGED threadVars
    /\ UNCHANGED <<vr, cap, sc, open_writers, files, video_uploads, starts,
                   stopping, h_hist, m_hist>>
    /\ UNCHANGED <<trackerVars, frameVars, streamVars, reporterVars,
                   serverVars, loopVars>>

\* main lines 1734 and 1794-1798: the loop ends, by _should_stop, the quit
\* key or KeyboardInterrupt
LoopEnds ==
    /\ m_pc = "loop"
    /\ frame_lock # "main"
    /\ m_pc' = "finally"
    /\ UNCHANGED threadVars
    /\ UNCHANGED <<vr, cap, sc, open_writers, files, video_uploads, starts,
                   st_pc, stopping, h_hist, should_stop, m_hist>>
    /\ UNCHANGED <<trackerVars, frameVars, streamVars, reporterVars,
                   serverVars, loopVars>>

\* main lines 1805-1807: the test of is_recording and the call
FinallyCall ==
    /\ m_pc = "finally"
    /\ IF FinallyStops(vr.is_recording)
       THEN /\ st_pc' = [st_pc EXCEPT !["main"] = "check"]
            /\ m_pc' = "finally_stop"
       ELSE /\ m_pc' = "stop_capture"
            /\ UNCHANGED st_pc
    /\ UNCHANGED threadVars
    /\ UNCHANGED <<vr, cap, sc, open_writers, files, video_uploads, starts,
                   stopping, h_hist, should_stop, m_hist>>
    /\ UNCHANGED <<trackerVars, frameVars, streamVars, reporterVars,
                   serverVars, loopVars>>

(* ---------------- properties of the recorder's threads ---------------- *)
\* C28: the camera writer is written and released under mutual exclusion:
\* while a write is in progress the capture thread holds writer_lock and
\* its writer is open, no file grows whose writer has been released, and a
\* caller of stop_and_upload releases the writer only while it holds
\* writer_lock.
C28_WriterMutualExclusion ==
    /\ [](c_pc = "writing"
            => (cap.writer \in open_writers /\ writer_lock = "capture"))
    /\ [][\A path \in DOMAIN files :
            files'[path] # files[path] => path \in open_writers]_vars
    /\ [][\A c \in Callers :
            (st_pc[c] = "release" /\ st_pc'[c] # "release")
                => writer_lock = c]_vars
\* the control thread has force-released the writer while the capture
\* thread, which opened it, waits to write its next frame
C28_Witness ==
    /\ st_pc["http"] = "up_webcam"
    /\ c_pc = "lock_write"
    /\ cap.initialized
    /\ cap.writer # NoPath
    /\ cap.writer \notin open_writers

\* C24: once the camera is open the capture loop goes on for as long as
\* the process runs: it comes back to the top of its loop again and again,
\* whatever start and stop commands and lock holders do, and it has ended
\* only if the shutdown has cleared capture_running.
C24_CaptureGoesOn ==
    /\ []<>(c_pc \in {"top", "done"} \/ m_pc = "exit")
    /\ [](c_pc = "done" => ~vr.capture_running)
    /\ [](~vr.capture_running
            => m_pc \in {"stop_ws", "stop_reporter", "exit"})
\* a session was recorded and stopped, the thread has closed its writer
\* and is back at the top of its loop
C24_Witness ==
    /\ c_pc = "top"
    /\ vr.capture_running
    /\ starts = 1
    /\ ~vr.is_recording
    /\ ~cap.initialized
    /\ video_uploads # <<>>

\* the path of the file handed to _upload_video in this step, if any
UploadedNow(before, after) ==
    IF Len(after) > Len(before) THEN {after[Len(after)].path} ELSE {}

\* C27: in stop_and_upload a session file is read for upload only after its
\* writer was closed, the camera file after the capture thread or the forced
\* release closed it, the screen file after the screen thread released its
\* writer, also when the join of the screen thread timed out
C27_UploadAfterWriterClosed ==
    [][\A path \in UploadedNow(video_uploads, video_uploads') :
          path \notin open_writers]_vars

\* the screen threads that have been started and have not ended
AliveScreenThreads == {n \in 1..MaxSessions : sc[n].pc = "run"}

\* C29: a screen thread exists only while a session is recorded: at most one
\* is alive at any time, the thread of one session is not alive in a later
\* session, and none is alive once stop_and_upload has returned and no new
\* session was started
C29_ScreenThreadOnlyWhileRecording ==
    /\ Cardinality(AliveScreenThreads) <= 1
    /\ \A n \in AliveScreenThreads : vr.is_recording => n = starts
    /\ (~vr.is_recording /\ \A c \in Callers : st_pc[c] = "idle")
          => AliveScreenThreads = {}

\* the contexts that are inside stop_and_upload past its test of is_recording
Stoppers == {c \in Callers : st_pc[c] \notin {"idle", "check"}}

\* C30: when stop_and_upload is called for the same active session by the
\* control thread and by the main thread (signal handler or finally block) at
\* the same time, only one of the calls gets past the test of is_recording,
\* and each file of the session is uploaded once
C30_ConcurrentStopOnce ==
    /\ Cardinality(Stoppers) <= 1
    /\ \A i, j \in 1..Len(video_uploads) :
          video_uploads[i].path = video_uploads[j].path => i = j

\* C25: after a termination signal the shutdown always completes: the stop
\* operations wait for their threads with bounded joins only, so a thread
\* that never finishes cannot keep the process from reaching its exit
C25_ShutdownCompletes == should_stop ~> (m_pc = "exit")
\* the process has exited after a signal, past a stop of the recording by
\* the main thread, while a screen thread has still not ended
C25_Witness ==
    /\ m_pc = "exit"
    /\ should_stop
    /\ stopping["main"] # 0
    /\ AliveScreenThreads # {}

\* C31: every session with camera recording gets its own writer on its own
\* webcam path: a frame that the capture thread takes into its locked block
\* while a session is recorded is written to the file of that session (unless
\* no codec could open the file), never to the file of an earlier session and
\* never to a released writer
C31_SessionGetsOwnWriter ==
    /\ [](c_pc = "writing"
            => (cap.writer = vr.webcam_path /\ cap.writer \in open_writers))
    /\ [][(c_pc = "lock_write" /\ c_pc' # "lock_write" /\ vr.is_recording)
            => \/ c_pc' = "writing" /\ cap'.writer = vr.webcam_path
               \/ ~cap'.initialized]_vars

\* C37: a recording command sent to the control server is eventually handled
\* also while a live-view client is attached: a client that holds GET /stream
\* open does not keep a later POST /recording/start, /recording/stop or
\* /recording/status from being processed
C37_CommandEventuallyHandled ==
    \A k \in 1..MaxCommands : (srv.sent >= k) ~> (srv.served >= k)

\* the control server with live-view clients and recording commands
NextServer ==
    \/ \E cmd \in RecordingCommands : CommandSent(cmd)
    \/ GetStream
    \/ StreamFrame
    \/ StreamClientLeaves
    \/ PostRecordingStatus
    \/ PostStartPlain
    \/ PostRecordingStop
    \/ StopRelease("http")
    \/ StopUploadWebcam("http")
    \/ StopUploadScreen("http")
\* the server thread takes a waiting command when it is free to
ServeWaiting ==
    /\ srv.waiting # <<>>
    /\ PostRecordingStatus \/ PostStartPlain \/ PostRecordingStop

\* clients that record the camera only
PostStartNoScreen == PostRecordingStart({"no_screen"})
\* one such session
PostStartCameraOnce == starts = 0 /\ PostStartNoScreen
\* one session in the life of the process
PostStartOnce == starts = 0 /\ PostRecordingStart({"none"})

\* the capture thread against start and stop commands and the shutdown
NextWriter ==
    \/ PostStartNoScreen
    \/ PostStopCall
    \/ \E c \in Callers : SU_Check(c)
    \/ \E c \in Callers : SU_Flag(c)
    \/ \E c \in Callers : SU_Join(c)
    \/ \E c \in Callers : SU_Acquire(c)
    \/ \E c \in Callers : SU_Release(c)
    \/ \E c \in Callers : SU_UploadWebcam(c)
    \/ \E c \in Callers : SU_UploadScreen(c)
    \/ CapTop
    \/ CapPublish
    \/ CapBranch
    \/ CapWriteBegin
    \/ CapWriteEnd
    \/ CapClose
    \/ GetLatestFrame
    \/ LoopEnds
    \/ FinallyCall
    \/ FinallyStopped
    \/ FinallyStopCapture
    \/ FinallyStopStreamer
    \/ FinallyStopReporter
\* the same with one session
NextCapture ==
    \/ PostStartCameraOnce
    \/ PostStopCall
    \/ \E c \in Callers : SU_Check(c)
    \/ \E c \in Callers : SU_Flag(c)
    \/ \E c \in Callers : SU_Join(c)
    \/ \E c \in Callers : SU_Acquire(c)
    \/ \E c \in Callers : SU_Release(c)
    \/ \E c \in Callers : SU_UploadWebcam(c)
    \/ \E c \in Callers : SU_UploadScreen(c)
    \/ CapTop
    \/ CapPublish
    \/ CapBranch
    \/ CapWriteBegin
    \/ CapWriteEnd
    \/ CapClose
    \/ GetLatestFrame
    \/ LoopEnds
    \/ FinallyCall
    \/ FinallyStopped
    \/ FinallyStopCapture
    \/ FinallyStopStreamer
    \/ FinallyStopReporter
\* the screen threads against start and stop commands
NextScreen ==
    \/ PostStartPlain
    \/ PostStopCall
    \/ SU_Check("http")
    \/ SU_Flag("http")
    \/ SU_Join("http")
    \/ SU_Acquire("http")
    \/ SU_Release("http")
    \/ SU_UploadWebcam("http")
    \/ SU_UploadScreen("http")
    \/ \E n \in 1..MaxSessions : ScreenFrame(n)
\* one session, stopped by the control thread and by the main thread
NextRace ==
    \/ PostStartOnce
    \/ PostStopCall
    \/ \E c \in Callers : SU_Check(c)
    \/ \E c \in Callers : SU_Flag(c)
    \/ \E c \in Callers : SU_Join(c)
    \/ \E c \in Callers : SU_Acquire(c)
    \/ \E c \in Callers : SU_Release(c)
    \/ \E c \in Callers : SU_UploadWebcam(c)
    \/ \E c \in Callers : SU_UploadScreen(c)
    \/ CapTop
    \/ CapPublish
    \/ CapBranch
    \/ CapWriteBegin
    \/ CapWriteEnd
    \/ CapClose
    \/ \E n \in 1..MaxSessions : ScreenFrame(n)
    \/ SignalArrives
    \/ HandlerReturn
    \/ LoopEnds
    \/ FinallyCall
    \/ FinallyStopped
    \/ FinallyStopCapture
    \/ FinallyStopStreamer
    \/ FinallyStopReporter

Init ==
    /\ TrackerInit
    /\ FrameInit
    /\ StreamInit
    /\ ReporterInit
    /\ RecorderInit
    /\ ThreadsInit
    /\ ServerInit
    /\ LoopInit
NextTracker == ProcessDetections
Next ==
    \/ NextTracker
    \/ NextFrame
    \/ NextStream
    \/ NextVisits
    \/ NextWorker
    \/ NextBatching
    \/ NextStall
    \/ NextWriter
    \/ NextCapture
    \/ NextScreen
    \/ NextRace
    \/ NextServer
    \/ NextLoop
    \/ NextShutdown
\* the tracker and the frame holder do not depend on the publisher's class
InitCamera == Init /\ p_kind = "camera"
SpecTracker == InitCamera /\ [][NextTracker]_vars
SpecFrame == InitCamera /\ [][NextFrame]_vars
SpecStream == Init /\ [][NextStream]_vars
\* the image upload of the reporter over many visits, and its batch worker
SpecVisits == InitCamera /\ [][NextVisits]_vars
SpecWorker == InitCamera /\ [][NextWorker]_vars
SpecBatching == InitCamera /\ [][NextBatching]_vars
\* the main loop with the image upload as a call that takes time
SpecStall == InitCamera /\ [][NextStall]_vars
\* the session recorder under the control server, and the same with the
\* shutdown of the process
SpecRecorder == InitCamera /\ [][NextRecorder]_vars
SpecShutdown == InitCamera /\ [][NextShutdown]_vars
\* the recorder's threads interleaved statement by statement
SpecWriter == InitCamera /\ [][NextWriter]_vars
\* the same with threads that are scheduled again and again and locks that
\* are handed to those who wait for them
SpecCaptureLive ==
    /\ InitCamera /\ [][NextCapture]_vars
    /\ WF_vars(CapTop)
    /\ SF_vars(CapPublish)
    /\ WF_vars(CapBranch)
    /\ SF_vars(CapWriteBegin)
    /\ WF_vars(CapWriteEnd)
    /\ SF_vars(CapClose)
    /\ \A c \in Callers : WF_vars(SU_Release(c))
    /\ WF_vars(GetLatestFrame)
SpecScreen == InitCamera /\ [][NextScreen]_vars
SpecRace == InitCamera /\ [][NextRace]_vars
SpecLoop == InitCamera /\ [][NextLoop]_vars
SpecServer == InitCamera /\ [][NextServer]_vars
\* the same with a server thread that goes on whenever it can; nothing is
\* assumed of the clients: a live-view client may stay for ever
SpecServerLive ==
    /\ SpecServer
    /\ WF_vars(ServeWaiting)
    /\ WF_vars(StreamFrame)
    /\ WF_vars(StopRelease("http"))
    /\ WF_vars(StopUploadWebcam("http"))
    /\ WF_vars(StopUploadScreen("http"))
\* the same with a main thread that goes on whenever it can, and with
\* writer_lock given back by its holders and handed to the main thread when
\* it waits for it; nothing is assumed of the screen threads, of the capture
\* thread outside its locked block, or of the control thread elsewhere
SpecRaceLive ==
    /\ SpecRace
    /\ WF_vars(SU_Check("main"))
    /\ WF_vars(SU_Flag("main"))
    /\ WF_vars(SU_Join("main"))
    /\ SF_vars(SU_Acquire("main"))
    /\ WF_vars(SU_UploadWebcam("main"))
    /\ WF_vars(SU_UploadScreen("main"))
    /\ \A c \in Callers : WF_vars(SU_Release(c))
    /\ WF_vars(CapWriteEnd)
    /\ WF_vars(HandlerReturn)
    /\ WF_vars(LoopEnds)
    /\ WF_vars(FinallyCall)
    /\ WF_vars(FinallyStopped)
    /\ WF_vars(FinallyStopCapture)
    /\ WF_vars(FinallyStopStreamer)
    /\ WF_vars(FinallyStopReporter)
Spec == Init /\ [][Next]_vars
====
